---- MODULE Spec2Model ----
(***************************************************************************)
(* ESP32-AT transport layer of the two Lab1 sketches:                      *)
(*   WifiTest  (Lab1/code/WifiTest/WifiTest.ino): fixed char acc[128],     *)
(*             waitToken/atCmd, pumpESP, pollAndEchoIPD, joinSTA/startAP.  *)
(*   part_000  (the sensor sketch): Arduino String acc/espBuf, espWaitFor/ *)
(*             espCmd, activeMask, espSendTo/espBroadcast,                 *)
(*             espPollForCommands, espTrySTA/espStartAP.                   *)
(* A behaviour runs one of the two sketches (variable prog): setup() and   *)
(* then loop(), against a module that answers each command with one of a   *)
(* few reply texts and emits unsolicited notifications and data frames.    *)
(* Bytes are one-character strings.  espRx holds the bytes from the module *)
(* that have arrived in the serial receive buffer and are not read yet;    *)
(* more holds the bytes the module has sent that are still to arrive.      *)
(* The beam detector of Lab2 (Lab2/code/finalcode.ino: loop, processData)  *)
(* is a third sketch, prog = "finalcode", with variables of its own.       *)
(* The buttons of the ESP32 sensor sketch (Lab1/code/ArduinoCode/TrueCode/ *)
(* TrueCode.ino: updateDebounced, fell, loop) are a fourth, prog =         *)
(* "TrueCode"; the enable flags en1, en2 they toggle are the ones that     *)
(* espPollForCommands of part_000 sets.                                    *)
(***************************************************************************)
EXTENDS Integers, Sequences, FiniteSets, TLC

(***************************************************************************)
(* Bounds of the model.                                                    *)
(***************************************************************************)
MaxEvents == 2        \* unsolicited notifications / frames the module emits
MaxBroadcasts == 1    \* 1 Hz broadcasts taken in loop() of part_000
TicksPerTimeout == 1  \* clock readings that separate t0 from the deadline
MaxFaults == 1        \* exchanges the module answers otherwise than expected
FillLen == 127        \* bytes of other traffic in front of the frame of LongStream

(***************************************************************************)
(* Bytes and texts.                                                        *)
(***************************************************************************)
NUL == "NUL"
CR == "\r"
LF == "\n"
CRLF == <<CR, LF>>
Digits == <<"0", "1", "2", "3", "4", "5", "6", "7", "8", "9">>
IsDigit(c) == \E d \in 1..10 : Digits[d] = c
DigitVal(c) == (CHOOSE d \in 1..10 : Digits[d] = c) - 1
IsSpace(c) == c \in {" ", "\t", LF, CR, "\f"}

tokOK == <<"O", "K">>
tokERROR == <<"E", "R", "R", "O", "R">>
tokCrErrorCr == CRLF \o tokERROR \o CRLF
tokGOTIP == <<"W", "I", "F", "I", " ", "G", "O", "T", " ", "I", "P">>
tokReady == <<"r", "e", "a", "d", "y">>
tokPrompt == <<">">>
tokSENDOK == <<"S", "E", "N", "D", " ", "O", "K">>
tokCONNECT == <<"C", "O", "N", "N", "E", "C", "T">> \o CRLF
tokCLOSED == <<"C", "L", "O", "S", "E", "D">> \o CRLF
tokIPD == <<"+", "I", "P", "D", ",">>
NoToken == <<>>

Max(a, b) == IF a >= b THEN a ELSE b
Min(a, b) == IF a <= b THEN a ELSE b

(***************************************************************************)
(* Substring search, 0-based results as in strstr / String::indexOf.       *)
(***************************************************************************)
MatchAt(s, t, i) ==
    /\ i >= 0
    /\ i + Len(t) <= Len(s)
    /\ \A k \in 1..Len(t) : s[i + k] = t[k]

IndexOfFrom(s, t, from) ==
    IF \E i \in from..(Len(s) - Len(t)) : MatchAt(s, t, i)
    THEN CHOOSE i \in from..(Len(s) - Len(t)) :
            MatchAt(s, t, i) /\ \A j \in from..(i - 1) : ~MatchAt(s, t, j)
    ELSE -1

IndexOf(s, t) == IndexOfFrom(s, t, 0)

LastIndexOf(s, t) ==
    IF \E i \in 0..(Len(s) - Len(t)) : MatchAt(s, t, i)
    THEN CHOOSE i \in 0..(Len(s) - Len(t)) :
            MatchAt(s, t, i) /\ \A j \in (i + 1)..(Len(s) - Len(t)) : ~MatchAt(s, t, j)
    ELSE -1

EndsWith(s, t) == Len(t) <= Len(s) /\ MatchAt(s, t, Len(s) - Len(t))

StartsWith(s, t) == MatchAt(s, t, 0)

\* String::substring(from, to): the characters at 0-based indexes from..to-1
Substring(s, from, to) == SubSeq(s, from + 1, Min(to, Len(s)))

\* the part of s from 0-based index from to the end
From(s, from) == SubSeq(s, from + 1, Len(s))

\* atoi / String::toInt: leading white space, an optional sign, then digits
RECURSIVE DigitRun(_, _)
DigitRun(s, v) ==
    IF s = <<>> \/ ~IsDigit(Head(s)) THEN v
    ELSE DigitRun(Tail(s), 10 * v + DigitVal(Head(s)))

RECURSIVE SkipSpace(_)
SkipSpace(s) == IF s # <<>> /\ IsSpace(Head(s)) THEN SkipSpace(Tail(s)) ELSE s

atoi(s) ==
    LET t == SkipSpace(s) IN
    IF t = <<>> THEN 0
    ELSE IF Head(t) = "-" THEN 0 - DigitRun(Tail(t), 0)
    ELSE IF Head(t) = "+" THEN DigitRun(Tail(t), 0)
    ELSE DigitRun(t, 0)

(***************************************************************************)
(* WifiTest: the fixed buffer acc[128] with its fill count accLen.  acc is *)
(* the array contents without its trailing NUL bytes (the array starts     *)
(* zeroed); what strstr/strchr/atoi see is CStr(acc), the bytes before the *)
(* first NUL.                                                              *)
(***************************************************************************)
AccSize == 128
AccHalf == AccSize \div 2

At(a, i) == IF i >= 0 /\ i < Len(a) THEN a[i + 1] ELSE NUL

RECURSIVE TrimNul(_)
TrimNul(a) ==
    IF a # <<>> /\ a[Len(a)] = NUL THEN TrimNul(SubSeq(a, 1, Len(a) - 1)) ELSE a

Store(a, i, v) ==
    TrimNul([k \in 1..Max(Len(a), i + 1) |-> IF k = i + 1 THEN v ELSE At(a, k - 1)])

CStr(a) ==
    LET n == IndexOf(a, <<NUL>>) IN IF n < 0 THEN a ELSE SubSeq(a, 1, n)

strstr(a, t) == IndexOf(CStr(a), t) >= 0

\* clearAcc(): only the fill count is reset, the bytes stay in the array
clearAcc(a) == [acc |-> a, accLen |-> 0]

\* memmove(acc, acc + sizeof(acc)/2, sizeof(acc)/2)
ShiftHalf(a) ==
    TrimNul([k \in 1..Max(Len(a), AccHalf) |->
                IF k <= AccHalf THEN At(a, k - 1 + AccHalf) ELSE At(a, k - 1)])

pushAcc(a, n, c) ==
    LET full == n >= AccSize - 1
        a1 == IF full THEN ShiftHalf(a) ELSE a
        n1 == IF full THEN AccHalf ELSE n
    IN  [acc |-> Store(Store(a1, n1, c), n1 + 1, NUL), accLen |-> n1 + 1]

(***************************************************************************)
(* WifiTest pumpESP(), one byte of its while loop.  s carries acc, accLen, *)
(* ipdActive, ipdId, ipdLen, ipdRead and two history fields: ipdGot, the   *)
(* bytes on which ipdRead was advanced for the frame in progress, and      *)
(* pumpFrames, the frames it has completed.  The line[] logger only feeds  *)
(* the PC serial port and is left out.                                     *)
(***************************************************************************)
PumpByte(s, c) ==
    LET p == pushAcc(s.acc, s.accLen, c)
        str == CStr(p.acc)
        start == IndexOf(str, tokIPD)
        hdr == ~s.ipdActive /\ c = ":" /\ start >= 0
        pstr == From(str, start + 5)
        comma2 == IndexOf(pstr, <<",">>)
        parse == hdr /\ comma2 >= 0
        id1 == IF hdr THEN atoi(pstr) ELSE s.ipdId
        len1 == IF parse THEN atoi(From(pstr, comma2 + 1)) ELSE s.ipdLen
        read1 == IF parse THEN 0 ELSE s.ipdRead
        act1 == IF parse THEN (id1 >= 0 /\ len1 > 0) ELSE s.ipdActive
        got1 == IF parse THEN <<>> ELSE s.ipdGot
        read2 == IF act1 THEN read1 + 1 ELSE read1
        got2 == IF act1 THEN Append(got1, c) ELSE got1
        done == act1 /\ read2 >= len1
        clear == p.accLen > AccSize - 8
    IN  [acc |-> IF clear THEN Store(p.acc, 0, NUL) ELSE p.acc,
         accLen |-> IF clear THEN 0 ELSE p.accLen,
         ipdActive |-> act1 /\ ~done,
         ipdId |-> id1,
         ipdLen |-> len1,
         ipdRead |-> read2,
         ipdGot |-> IF done THEN <<>> ELSE got2,
         pumpFrames |-> IF done
                        THEN Append(s.pumpFrames, [id |-> id1, payload |-> got2])
                        ELSE s.pumpFrames]

\* the three tests of one waitToken iteration, in the order of the source
WaitVerdict(a, n, expect1, expect2) ==
    IF expect1 # NoToken /\ strstr(a, expect1) THEN "ok"
    ELSE IF expect2 # NoToken /\ strstr(a, expect2) THEN "ok"
    ELSE IF strstr(a, tokCrErrorCr) \/ (n >= 5 /\ strstr(a, tokERROR)) THEN "fail"
    ELSE "none"

(***************************************************************************)
(* part_000: Arduino String helpers and the per-byte body of espWaitFor.   *)
(***************************************************************************)
EspBufMax == 512

\* espBuf += c; if (espBuf.length()>512) espBuf.remove(0, espBuf.length()-512);
EspAppend(b, c) ==
    LET b1 == Append(b, c) IN
    IF Len(b1) > EspBufMax THEN From(b1, Len(b1) - EspBufMax) ELSE b1

\* activeMask is a uint8_t bit mask
\* (a test of the bit above the one asked for)
Bit_Above(m, i) == (m \div (2 ^ (i + 1))) % 2 = 1
Bit(m, i) == (m \div (2 ^ i)) % 2 = 1
SetBit(m, i) == IF Bit(m, i) THEN m ELSE (m + 2 ^ i) % 256
ClearBit(m, i) == IF Bit(m, i) THEN m - 2 ^ i ELSE m
OpenSet(m) == {i \in 0..7 : Bit(m, i)}

\* int comma = acc.lastIndexOf(','); if (comma>=1) { int id =
\* acc.substring(comma-1,comma).toInt(); if(id>=0&&id<=4) ... }
NoteId_FirstComma(a) ==
    LET comma == IndexOf(a, <<",">>) IN
    IF comma >= 1 THEN atoi(Substring(a, comma - 1, comma)) ELSE -1

NoteId(a) ==
    LET comma == LastIndexOf(a, <<",">>) IN
    IF comma >= 1 THEN atoi(Substring(a, comma - 1, comma)) ELSE -1

TrackLinks(a, m) ==
    LET id == NoteId(a) IN
    IF EndsWith(a, tokCONNECT)
    THEN IF id >= 0 /\ id <= 4 THEN SetBit(m, id) ELSE m
    ELSE IF EndsWith(a, tokCLOSED)
    THEN IF id >= 0 /\ id <= 4 THEN ClearBit(m, id) ELSE m
    ELSE m

\* if (acc.indexOf("+IPD,")>=0) { espBuf += c; ... }
Accumulate(a, b, c) == IF IndexOf(a, tokIPD) >= 0 THEN EspAppend(b, c) ELSE b

\* String::trim()
RECURSIVE TrimRight(_)
TrimRight(s) ==
    IF s # <<>> /\ IsSpace(s[Len(s)]) THEN TrimRight(SubSeq(s, 1, Len(s) - 1)) ELSE s
Trim(s) == TrimRight(SkipSpace(s))

\* espPollForCommands(): the while loop that cuts payloads out of espBuf;
\* out collects the payloads it has handled
RECURSIVE PollCommands(_, _)
PollCommands(b, out) ==
    LET i == IndexOf(b, tokIPD)
        j == IF i < 0 THEN -1 ELSE IndexOfFrom(b, <<":">>, i)
        nl == IF j < 0 THEN -1 ELSE IndexOfFrom(b, <<LF>>, j + 1)
    IN  IF i < 0 \/ j < 0 \/ nl < 0 THEN [espBuf |-> b, out |-> out]
        ELSE PollCommands(From(b, nl + 1),
                          Append(out, [id |-> -1, payload |-> Trim(Substring(b, j + 1, nl))]))

\* String::toLowerCase()
UpperCase ==
    <<"A", "B", "C", "D", "E", "F", "G", "H", "I", "J", "K", "L", "M", "N",
      "O", "P", "Q", "R", "S", "T", "U", "V", "W", "X", "Y", "Z">>
LowerCase ==
    <<"a", "b", "c", "d", "e", "f", "g", "h", "i", "j", "k", "l", "m", "n",
      "o", "p", "q", "r", "s", "t", "u", "v", "w", "x", "y", "z">>
Lower(c) ==
    IF \E k \in 1..Len(UpperCase) : UpperCase[k] = c
    THEN LowerCase[CHOOSE k \in 1..Len(UpperCase) : UpperCase[k] = c]
    ELSE c
toLowerCase(s) == [k \in 1..Len(s) |-> Lower(s[k])]

\* the texts espPollForCommands looks for in the lower-cased payload
keyCommand ==
    <<"\"", "c", "o", "m", "m", "a", "n", "d", "\"">>
keySetSensor ==
    <<"s", "e", "t", "_", "s", "e", "n", "s", "o", "r">>
keyS1 ==
    <<"\"", "s", "e", "n", "s", "o", "r", "\"", ":", "\"", "s", "1", "\"">>
keyS2 ==
    <<"\"", "s", "e", "n", "s", "o", "r", "\"", ":", "\"", "s", "2", "\"">>
keyOn ==
    <<"\"", "s", "t", "a", "t", "e", "\"", ":", "\"", "o", "n", "\"">>
keyOff ==
    <<"\"", "s", "t", "a", "t", "e", "\"", ":", "\"", "o", "f", "f", "\"">>

\* the body of the loop of espPollForCommands after payload.trim(): the
\* enable flags after one payload
SetSensor(e, payload) ==
    LET low == toLowerCase(payload)
        isS1 == IndexOf(low, keyS1) >= 0
        isS2 == IndexOf(low, keyS2) >= 0
        on == IndexOf(low, keyOn) >= 0
        off == IndexOf(low, keyOff) >= 0
    IN  IF /\ StartsWith(payload, <<"{">>) /\ EndsWith(payload, <<"}">>)
           /\ IndexOf(low, keyCommand) >= 0 /\ IndexOf(low, keySetSensor) >= 0
        THEN [en1 |-> IF isS1 /\ (on \/ off) THEN on ELSE e.en1,
              en2 |-> IF isS2 /\ (on \/ off) THEN on ELSE e.en2]
        ELSE e

\* the enable flags after the payloads of one espPollForCommands call
RECURSIVE SetSensors(_, _)
SetSensors(e, out) ==
    IF out = <<>> THEN e ELSE SetSensors(SetSensor(e, Head(out).payload), Tail(out))

(***************************************************************************)
(* The exchanges of setup() and loop(), named by caller and command.  pc   *)
(* is the exchange being run or about to be run, or a loop position.       *)
(***************************************************************************)
WSteps ==
    {"joinSTA.AT", "joinSTA.ATE0", "joinSTA.SYSSTORE", "joinSTA.CWMODE",
     "joinSTA.CWJAP", "joinSTA.CIFSR", "joinSTA.CIPMUX", "joinSTA.CIPSERVER",
     "WifiTest.RESTORE",
     "startAP.AT", "startAP.ATE0", "startAP.CWMODE", "startAP.CWSAP6",
     "startAP.CWSAP1", "startAP.CIFSR", "startAP.CIPMUX", "startAP.CIPSERVER",
     "echo.CIPSEND", "echo.SENDOK"}

PSteps ==
    {"espTrySTA.AT", "espTrySTA.ATE0", "espTrySTA.CWMODE", "espTrySTA.SYSSTORE",
     "espTrySTA.CWJAP", "espTrySTA.OK", "espTrySTA.CIPMUX", "espTrySTA.CIPSERVER",
     "part_000.RESTORE",
     "espStartAP.CWMODE", "espStartAP.CWSAP", "espStartAP.CIPMUX",
     "espStartAP.CIPSERVER",
     "espSendTo.CIPSEND", "espSendTo.SENDOK"}

Steps == WSteps \cup PSteps

WLoopPump == "loop.pumpESP"
WLoopPoll == "loop.pollAndEchoIPD"
PLoop == "loop"
PBroadcast == "espBroadcast"

\* the token(s) an exchange waits for
Expect1(step) ==
    CASE step \in {"joinSTA.CWJAP", "espTrySTA.CWJAP"} -> tokGOTIP
      [] step \in {"WifiTest.RESTORE", "part_000.RESTORE"} -> tokReady
      [] step \in {"echo.CIPSEND", "espSendTo.CIPSEND"} -> tokPrompt
      [] step \in {"echo.SENDOK", "espSendTo.SENDOK"} -> tokSENDOK
      [] OTHER -> tokOK

Expect2(step) == IF step = "joinSTA.CWJAP" THEN tokOK ELSE NoToken

Timeout(step) ==
    CASE step = "joinSTA.CWJAP" -> 25000
      [] step = "WifiTest.RESTORE" -> 5000
      [] step \in {"echo.CIPSEND", "echo.SENDOK"} -> 2000
      [] step \in WSteps -> 8000
      [] step = "espTrySTA.CWJAP" -> 12000
      [] step = "espTrySTA.OK" -> 2000
      [] step = "part_000.RESTORE" -> 3000
      [] step = "espSendTo.SENDOK" -> 1000
      [] OTHER -> 6000

\* where control goes when the exchange of step returns ok / not ok
Succ(step, ok) ==
    CASE step = "joinSTA.AT" -> IF ok THEN "joinSTA.ATE0" ELSE "WifiTest.RESTORE"
      [] step = "joinSTA.ATE0" -> "joinSTA.SYSSTORE"
      [] step = "joinSTA.SYSSTORE" -> "joinSTA.CWMODE"
      [] step = "joinSTA.CWMODE" -> IF ok THEN "joinSTA.CWJAP" ELSE "WifiTest.RESTORE"
      [] step = "joinSTA.CWJAP" -> IF ok THEN "joinSTA.CIFSR" ELSE "WifiTest.RESTORE"
      [] step = "joinSTA.CIFSR" -> "joinSTA.CIPMUX"
      [] step = "joinSTA.CIPMUX" -> "joinSTA.CIPSERVER"
      [] step = "joinSTA.CIPSERVER" -> IF ok THEN WLoopPump ELSE "WifiTest.RESTORE"
      [] step = "WifiTest.RESTORE" -> "startAP.AT"
      [] step = "startAP.AT" -> IF ok THEN "startAP.ATE0" ELSE WLoopPump
      [] step = "startAP.ATE0" -> "startAP.CWMODE"
      [] step = "startAP.CWMODE" -> IF ok THEN "startAP.CWSAP6" ELSE WLoopPump
      [] step = "startAP.CWSAP6" -> IF ok THEN "startAP.CIFSR" ELSE "startAP.CWSAP1"
      [] step = "startAP.CWSAP1" -> IF ok THEN "startAP.CIFSR" ELSE WLoopPump
      [] step = "startAP.CIFSR" -> "startAP.CIPMUX"
      [] step = "startAP.CIPMUX" -> IF ok THEN "startAP.CIPSERVER" ELSE WLoopPump
      [] step = "startAP.CIPSERVER" -> WLoopPump
      [] step = "echo.CIPSEND" -> IF ok THEN "echo.SENDOK" ELSE WLoopPoll
      [] step = "echo.SENDOK" -> WLoopPoll
      [] step = "espTrySTA.AT" -> IF ok THEN "espTrySTA.ATE0" ELSE "part_000.RESTORE"
      [] step = "espTrySTA.ATE0" -> "espTrySTA.CWMODE"
      [] step = "espTrySTA.CWMODE" -> "espTrySTA.SYSSTORE"
      [] step = "espTrySTA.SYSSTORE" -> "espTrySTA.CWJAP"
      [] step = "espTrySTA.CWJAP" -> IF ok THEN "espTrySTA.CIPMUX" ELSE "espTrySTA.OK"
      [] step = "espTrySTA.OK" -> IF ok THEN "espTrySTA.CIPMUX" ELSE "part_000.RESTORE"
      [] step = "espTrySTA.CIPMUX" -> "espTrySTA.CIPSERVER"
      [] step = "espTrySTA.CIPSERVER" -> PLoop
      [] step = "part_000.RESTORE" -> "espStartAP.CWMODE"
      [] step = "espStartAP.CWMODE" -> "espStartAP.CWSAP"
      [] step = "espStartAP.CWSAP" -> IF ok THEN "espStartAP.CIPMUX" ELSE PLoop
      [] step = "espStartAP.CIPMUX" -> "espStartAP.CIPSERVER"
      [] step = "espStartAP.CIPSERVER" -> PLoop
      [] step = "espSendTo.CIPSEND" -> IF ok THEN "espSendTo.SENDOK" ELSE PBroadcast
      [] step = "espSendTo.SENDOK" -> PBroadcast

\* the value joinSTA / espTrySTA returns when it returns at this exchange
StaReturn(step, ok) ==
    CASE step \in {"joinSTA.AT", "joinSTA.CWMODE", "joinSTA.CWJAP", "espTrySTA.AT",
                   "espTrySTA.OK"} /\ ~ok -> "fail"
      [] step = "joinSTA.CIPSERVER" -> IF ok THEN "ok" ELSE "fail"
      [] step = "espTrySTA.CIPSERVER" -> "ok"
      [] OTHER -> "none"

\* apMode = false; at the end of joinSTA, apMode = true; at the end of startAP
ApModeAfter_Unset(step, ok, m) ==
    IF step = "joinSTA.CIPSERVER" /\ ok THEN FALSE ELSE m

ApModeAfter(step, ok, m) ==
    IF step = "joinSTA.CIPSERVER" /\ ok THEN FALSE
    ELSE IF step = "startAP.CIPSERVER" /\ ok THEN TRUE
    ELSE m

\* (a startAP that does not return at the failed open configuration)
ApReturn_NoSecondReturn(step, ok) ==
    CASE step \in {"startAP.AT", "startAP.CWMODE", "startAP.CIPMUX",
                   "espStartAP.CWSAP"} /\ ~ok -> "fail"
      [] step = "startAP.CIPSERVER" -> IF ok THEN "ok" ELSE "fail"
      [] step = "espStartAP.CIPSERVER" -> "ok"
      [] OTHER -> "none"

\* the value startAP / espStartAP returns when it returns at this exchange
ApReturn(step, ok) ==
    CASE step \in {"startAP.AT", "startAP.CWMODE", "startAP.CWSAP1", "startAP.CIPMUX",
                   "espStartAP.CWSAP"} /\ ~ok -> "fail"
      [] step = "startAP.CIPSERVER" -> IF ok THEN "ok" ELSE "fail"
      [] step = "espStartAP.CIPSERVER" -> "ok"
      [] OTHER -> "none"

(***************************************************************************)
(* The module.  It answers a command with one of a few texts (or stays     *)
(* silent), and emits connect/close notifications and a data frame.        *)
(***************************************************************************)
LinkIds == {2}
Hello == <<"h", "e", "l", "l", "o">>
FrameText == tokIPD \o <<"1", ",", "5", ":">> \o Hello

NoteText(i, kind) ==
    <<Digits[i + 1], ",">> \o (IF kind = "CONNECT" THEN tokCONNECT ELSE tokCLOSED)

Silence == <<>>
ReplyOK == tokOK \o CRLF
ReplyERROR == tokERROR \o CRLF

Replies(step) ==
    CASE step \in {"joinSTA.CWJAP", "espTrySTA.CWJAP"} ->
            {Silence, ReplyOK, ReplyERROR, tokGOTIP \o CRLF, tokGOTIP \o CRLF \o ReplyOK}
      [] step \in {"WifiTest.RESTORE", "part_000.RESTORE"} -> {Silence, tokReady \o CRLF}
      [] step \in {"echo.CIPSEND", "espSendTo.CIPSEND"} -> {Silence, tokPrompt, ReplyERROR}
      [] step \in {"echo.SENDOK", "espSendTo.SENDOK"} -> {Silence, tokSENDOK \o CRLF}
      [] OTHER -> {Silence, ReplyOK, ReplyERROR, ReplyERROR \o ReplyOK}

\* the answer of a module that works as the sketch expects
Nominal(step) ==
    CASE step \in {"joinSTA.CWJAP", "espTrySTA.CWJAP"} -> tokGOTIP \o CRLF \o ReplyOK
      [] step \in {"WifiTest.RESTORE", "part_000.RESTORE"} -> tokReady \o CRLF
      [] step \in {"echo.CIPSEND", "espSendTo.CIPSEND"} -> tokPrompt
      [] step \in {"echo.SENDOK", "espSendTo.SENDOK"} -> tokSENDOK \o CRLF
      [] OTHER -> ReplyOK

\* where a text may be cut between two arrivals: after each of its lines
Cuts(r) == {Len(r)} \cup {k \in 1..Len(r) : r[k] = LF}

\* what the module emits on its own: a data frame, and for the sketch that
\* keeps a link table the notifications of LinkIds
Events(p) ==
    IF p = "WifiTest" THEN {FrameText}
    ELSE {NoteText(i, k) : i \in LinkIds, k \in {"CONNECT", "CLOSED"}} \cup {FrameText}

(***************************************************************************)
(* The link notifications contained in the byte stream as received, by     *)
(* whichever loop reads it: note is the longest suffix of the stream read  *)
(* so far that begins a notification "<id>,CONNECT\r\n" / "<id>,CLOSED\r\n".*)
(***************************************************************************)
NoteTexts == {NoteText(i, k) : i \in 0..9, k \in {"CONNECT", "CLOSED"}}
IsNotePrefix(s) == \E n \in NoteTexts : Len(s) <= Len(n) /\ SubSeq(n, 1, Len(s)) = s

RECURSIVE KeepNote(_)
KeepNote(s) == IF IsNotePrefix(s) THEN s ELSE KeepNote(Tail(s))

StreamByte(g, c) ==
    LET n == KeepNote(Append(g.note, c))
        id == IF n # <<>> THEN DigitVal(n[1]) ELSE -1
        conn == n \in NoteTexts /\ EndsWith(n, tokCONNECT) /\ id \in 0..4
        clos == n \in NoteTexts /\ EndsWith(n, tokCLOSED) /\ id \in 0..4
        upd(S) == IF conn THEN S \cup {id} ELSE IF clos THEN S \ {id} ELSE S
    IN  [note |-> IF n \in NoteTexts THEN <<>> ELSE n,
         truth |-> upd(g.truth),
         fresh |-> IF g.fallen THEN upd(g.fresh) ELSE g.fresh,
         fallen |-> g.fallen]

(***************************************************************************)
(* State.                                                                  *)
(***************************************************************************)
VARIABLES
    prog,        \* "WifiTest", "part_000" or "finalcode"
    pc,          \* exchange or loop position
    ex,          \* "idle", "wait" (at the timeout test), "drain" (inner read loop)
    espRx,       \* bytes that have arrived from the module and are not read yet
    tx,          \* the last command / payload written to the module
    acc,         \* WifiTest: char acc[128]; part_000: String acc of espWaitFor
    accLen,      \* WifiTest: fill count of acc
    elapsed,     \* millis() - t0 of the exchange
    timeoutMs,   \* its timeout
    res,         \* result of the last exchange: "none" while one is running
    gotByte,     \* a byte was read since the exchange started
    ipdActive, ipdId, ipdLen, ipdRead,   \* WifiTest pumpESP parse state
    ipdGot, pumpFrames,                  \* history: bytes counted, frames completed
    st, curId, curLen, got,              \* WifiTest pollAndEchoIPD statics
    pollGot,                             \* history: bytes counted by got
    apMode,
    sta, ap,     \* what the station / access-point branch returned
    okSteps,     \* history: exchanges of the current branch that returned true
    espBuf,      \* part_000 String espBuf
    activeMask,  \* part_000 link bit mask
    maskLog,     \* history: the successive values of activeMask
    bi, todo,    \* espBroadcast loop index, espBroadcast calls still to make
    events, bcasts, sentFrames,   \* counts of module events, broadcasts, frames
    faults,      \* count of commands answered otherwise than Nominal
    owed,        \* the command the module has not answered yet, or "none"
    more,        \* bytes the module has sent that have not arrived yet
    reply,       \* history: the answer the module gave during the running exchange
    late,        \* history: the answer it gave after that exchange had returned
    fed,         \* history: the byte stream fed to loop() by the module
    note, truth, fresh,           \* link notifications in the stream as received
    delivered    \* history: frames handed to the echo / command handler

\* finalcode.ino, the beam detector
VARIABLES
    beamBlocked,      \* the latched state
    prevBeamBlocked,
    blockCounter,     \* hysteresis counter
    currentSet, currentSample,
    setCycleCount,    \* int: sets and lapses so far; loop() works on its % 3
    recorded,         \* history: samples recorded since the last processData()
    ledPin,           \* the level last written to LED_PIN
    mail,             \* what the last processData() did about the alert email
    prev,             \* its local prev
    blockedNow,       \* its local blockedNow
    blockedRun,       \* history: blockage detections in a row, up to the last call
    clearRun          \* history: clear detections since the last blockage detection

beam == <<beamBlocked, prevBeamBlocked, blockCounter, currentSet, currentSample,
          setCycleCount, recorded,
          ledPin, mail, prev, blockedNow, blockedRun, clearRun>>

\* TrueCode.ino and part_000, the buttons and the enable flags
VARIABLES
    en1, en2,         \* the enable flags of the two sensors
    btn,              \* btnS1, btnS2: lastStable, lastRead, lastFlipMs
    pin,              \* the levels of PIN_BTN_S1, PIN_BTN_S2
    millis,           \* the millisecond clock
    busyUntil,        \* the end of the delay() the sketch is in
    lowSince,         \* history: when each input last went LOW
    toggles,          \* history: toggles of each flag since then
    edges             \* history: input changes so far

enable == <<en1, en2>>
buttons == <<btn, pin, millis, busyUntil, lowSince, toggles, edges>>
panel == <<enable, buttons>>

ctl == <<prog, pc, ex>>
clock == <<elapsed, timeoutMs>>
wPump == <<ipdActive, ipdId, ipdLen, ipdRead, ipdGot, pumpFrames>>
wPoll == <<st, curId, curLen, got, pollGot>>
bring == <<apMode, sta, ap, okSteps>>
pLink == <<activeMask, maskLog>>
pBcast == <<bi, todo, bcasts>>
stream == <<note, truth, fresh>>
env == <<events, sentFrames, faults, owed, more>>
hist == <<reply, delivered, late, fed>>
vars == <<prog, pc, ex, espRx, tx, acc, accLen, elapsed, timeoutMs, res, gotByte,
          ipdActive, ipdId, ipdLen, ipdRead, ipdGot, pumpFrames,
          st, curId, curLen, got, pollGot, apMode, sta, ap, okSteps,
          espBuf, activeMask, maskLog, bi, todo, events, bcasts, sentFrames, faults,
          owed, more, reply, note, truth, fresh, delivered, late, fed,
          beamBlocked, prevBeamBlocked, blockCounter, currentSet, currentSample,
          setCycleCount, recorded,
          ledPin, mail, prev, blockedNow, blockedRun, clearRun,
          en1, en2, btn, pin, millis, busyUntil, lowSince, toggles, edges>>

NoTx == [step |-> "none", link |-> -1, len |-> 0, data |-> <<>>]

\* the globals of finalcode.ino; LED_PIN is low after pinMode
InitBeamState ==
    /\ beamBlocked = FALSE /\ prevBeamBlocked = FALSE /\ blockCounter = 0
    /\ currentSet = 0 /\ currentSample = 0 /\ setCycleCount = 0
    /\ ledPin = "LOW" /\ mail = "none" /\ prev = FALSE /\ blockedNow = FALSE
    /\ blockedRun = 0 /\ clearRun = 0 /\ recorded = 0

HIGH == TRUE
LOW == FALSE
Buttons == 1..2

\* setup() ends no earlier than its delay(300)
StartMs == 300

\* DebouncedButton(uint8_t p, unsigned long debounceMs = 20)
settleMs == 20
NewButton == [lastStable |-> HIGH, lastRead |-> HIGH, lastFlipMs |-> 0]

\* the enable flags and the buttons at the first loop(): both inputs are
\* pulled up and no button is pressed
InitPanel ==
    /\ en1 = FALSE /\ en2 = FALSE
    /\ btn = [i \in Buttons |-> NewButton]
    /\ pin = [i \in Buttons |-> HIGH]
    /\ millis = StartMs /\ busyUntil = StartMs
    /\ lowSince = [i \in Buttons |-> 0]
    /\ toggles = [i \in Buttons |-> 0]
    /\ edges = 0

\* the globals of the two Wi-Fi sketches, and the module at rest
InitGlobals ==
    /\ ex = "idle"
    /\ espRx = <<>>
    /\ tx = NoTx
    /\ acc = <<>> /\ accLen = 0
    /\ elapsed = 0 /\ timeoutMs = 0
    /\ res = "none" /\ gotByte = FALSE
    /\ ipdActive = FALSE /\ ipdId = -1 /\ ipdLen = 0 /\ ipdRead = 0
    /\ ipdGot = <<>> /\ pumpFrames = <<>>
    /\ st = "S_IDLE" /\ curId = -1 /\ curLen = 0 /\ got = 0 /\ pollGot = <<>>
    /\ apMode = FALSE /\ sta = "none" /\ ap = "none" /\ okSteps = {}
    /\ espBuf = <<>> /\ activeMask = 0 /\ maskLog = <<0>>
    /\ bi = 0 /\ todo = 0
    /\ events = 0 /\ bcasts = 0 /\ sentFrames = 0 /\ faults = 0
    /\ owed = "none" /\ more = <<>> /\ reply = <<>>
    /\ note = <<>> /\ truth = {} /\ fresh = {}
    /\ delivered = <<>>
    /\ late = <<>> /\ fed = <<>>

Init ==
    /\ prog \in {"WifiTest", "part_000"}
    /\ pc = IF prog = "WifiTest" THEN "joinSTA.AT" ELSE "espTrySTA.AT"
    /\ InitGlobals
    /\ InitPanel
    /\ InitBeamState

(***************************************************************************)
(* Writing a command or payload and starting the wait.                     *)
(***************************************************************************)
EchoPrefix == <<"E", "C", "H", "O", ":", " ">>
Line == <<"{", "}", LF>>

\* esp.write(acc, curLen) with curLen > sizeof(acc) reads the globals that
\* the build placed behind acc[]: each such byte is zero or something else
Beyond == {NUL, "?"}

\* what atCmd / espCmd / esp.write put on the wire at this step; b is the
\* value of the bytes read behind acc[]
Written(step, b) ==
    CASE step = "echo.CIPSEND" ->
            [step |-> step, link |-> curId, len |-> Len(EchoPrefix) + curLen + 1,
             data |-> <<>>]
      [] step = "echo.SENDOK" ->
            [step |-> step, link |-> curId, len |-> Len(EchoPrefix) + curLen + 1,
             data |-> EchoPrefix
                      \o [i \in 1..curLen |-> IF i <= AccSize THEN At(acc, i - 1) ELSE b]
                      \o <<LF>>]
      [] step = "espSendTo.CIPSEND" ->
            [step |-> step, link |-> bi, len |-> Len(Line), data |-> <<>>]
      [] step = "espSendTo.SENDOK" ->
            [step |-> step, link |-> bi, len |-> Len(Line), data |-> Line]
      [] step = "espTrySTA.OK" -> tx
      [] OTHER -> [step |-> step, link |-> -1, len |-> 0, data |-> <<>>]

\* waitToken starts with clearAcc(); espWaitFor with a fresh String acc
StartAcc == IF prog = "WifiTest" THEN clearAcc(acc) ELSE [acc |-> <<>>, accLen |-> 0]

\* the command is written and the wait entered: clearAcc() and the first
\* pumpESP() / the inner read loop begin before any answer can arrive
Issue ==
    /\ UNCHANGED <<beam, panel>>
    /\ ex = "idle"
    /\ pc \in Steps
    /\ IF pc = "espTrySTA.OK"
       THEN UNCHANGED <<owed, reply, late>>
       ELSE owed = "none" /\ owed' = pc /\ reply' = <<>> /\ late' = <<>>
    /\ \E b \in Beyond : tx' = Written(pc, b)
    /\ acc' = StartAcc.acc
    /\ accLen' = StartAcc.accLen
    /\ elapsed' = 0
    /\ timeoutMs' = Timeout(pc)
    /\ res' = "none"
    /\ gotByte' = FALSE
    /\ ex' = "drain"
    /\ UNCHANGED <<prog, pc, espRx, wPump, wPoll, bring, espBuf, pLink, pBcast, stream,
                   events, sentFrames, faults, more, delivered, fed>>

\* the module answers the command, during the wait or after it has ended
Reply ==
    /\ UNCHANGED <<beam, panel>>
    /\ owed # "none"
    /\ more = <<>>
    /\ ex = "idle" \/ (ex = "wait" /\ elapsed < timeoutMs /\ espRx = <<>>)
    /\ \E r \in Replies(owed) : \E k \in Cuts(r) :
          /\ r = Nominal(owed) \/ faults < MaxFaults
          /\ faults' = IF r = Nominal(owed) THEN faults ELSE faults + 1
          /\ espRx' = espRx \o SubSeq(r, 1, k)
          /\ more' = SubSeq(r, k + 1, Len(r))
          /\ reply' = IF ex = "wait" THEN r ELSE reply
          /\ late' = IF ex = "wait" THEN late ELSE r
    /\ owed' = "none"
    /\ UNCHANGED <<ctl, tx, acc, accLen, clock, res, gotByte, wPump, wPoll, bring,
                   espBuf, pLink, pBcast, stream, events, sentFrames, delivered, fed>>

\* the rest of a text arrives
Deliver ==
    /\ UNCHANGED <<beam, panel>>
    /\ more # <<>>
    /\ espRx' = espRx \o more
    /\ more' = <<>>
    /\ UNCHANGED <<ctl, tx, acc, accLen, clock, res, gotByte, wPump, wPoll, bring,
                   espBuf, pLink, pBcast, stream, events, sentFrames, faults, owed,
                   hist>>

Quantum(T) == (T + TicksPerTimeout - 1) \div TicksPerTimeout

\* Time passes in the wait.  A byte takes microseconds and a timeout seconds:
\* what the module has sent arrives, and is read, before the clock moves on.
Tick ==
    /\ UNCHANGED <<beam, panel>>
    /\ ex = "wait"
    /\ elapsed < timeoutMs
    /\ espRx = <<>> /\ more = <<>>
    /\ elapsed' = Min(timeoutMs, elapsed + Quantum(timeoutMs))
    /\ UNCHANGED <<ctl, espRx, tx, acc, accLen, timeoutMs, res, gotByte, wPump, wPoll,
                   bring, espBuf, pLink, pBcast, stream, env, hist>>

(***************************************************************************)
(* Return of an exchange to its caller.                                    *)
(***************************************************************************)
Tracked ==
    {"joinSTA.CIPMUX", "joinSTA.CIPSERVER", "WifiTest.RESTORE", "startAP.CWSAP6",
     "startAP.CWSAP1", "startAP.CIPMUX", "startAP.CIPSERVER",
     "espTrySTA.CIPMUX", "espTrySTA.CIPSERVER", "part_000.RESTORE",
     "espStartAP.CWSAP", "espStartAP.CIPMUX", "espStartAP.CIPSERVER"}

\* the echo of pollAndEchoIPD ends here: clearAcc(); st = S_IDLE
EchoEnds(step, v) ==
    (step = "echo.SENDOK" /\ v # "none") \/ (step = "echo.CIPSEND" /\ v = "fail")

\* (setup() runs esp.begin() again after AT+RESTORE: the port is already open
\* and listening, its receive buffer is left as it is)
Return(step, v, rest) ==
    /\ pc' = Succ(step, v = "ok")
    /\ ex' = "idle"
    /\ res' = v
    /\ sta' = IF StaReturn(step, v = "ok") # "none" THEN StaReturn(step, v = "ok") ELSE sta
    /\ ap' = IF ApReturn(step, v = "ok") # "none" THEN ApReturn(step, v = "ok") ELSE ap
    /\ apMode' = ApModeAfter(step, v = "ok", apMode)
    /\ okSteps' = IF StaReturn(step, v = "ok") = "fail" THEN {}
                  ELSE IF v = "ok" /\ step \in Tracked THEN okSteps \cup {step}
                  ELSE okSteps
    /\ bi' = IF Succ(step, v = "ok") = PBroadcast THEN bi + 1 ELSE bi
    /\ espRx' = rest
    /\ UNCHANGED <<prog, todo, bcasts>>

(***************************************************************************)
(* WifiTest waitToken.  ex = "wait": at the timeout test of its while      *)
(* loop; ex = "drain": inside the while (esp.available()) loop of the      *)
(* pumpESP() it called.  W_WaitByte is one byte of pumpESP; W_WaitCheck is *)
(* the end of pumpESP (no byte available) followed by the token tests.     *)
(***************************************************************************)
PumpState ==
    [acc |-> acc, accLen |-> accLen, ipdActive |-> ipdActive, ipdId |-> ipdId,
     ipdLen |-> ipdLen, ipdRead |-> ipdRead, ipdGot |-> ipdGot,
     pumpFrames |-> pumpFrames]

SetPump(s) ==
    /\ acc' = s.acc
    /\ accLen' = s.accLen
    /\ ipdActive' = s.ipdActive
    /\ ipdId' = s.ipdId
    /\ ipdLen' = s.ipdLen
    /\ ipdRead' = s.ipdRead
    /\ ipdGot' = s.ipdGot
    /\ pumpFrames' = s.pumpFrames

W_WaitByte ==
    /\ UNCHANGED <<beam, panel>>
    /\ prog = "WifiTest"
    /\ ex \in {"wait", "drain"}
    /\ espRx # <<>>
    /\ SetPump(PumpByte(PumpState, Head(espRx)))
    /\ espRx' = Tail(espRx)
    /\ gotByte' = TRUE
    /\ ex' = "drain"
    /\ UNCHANGED <<prog, pc, tx, clock, res, wPoll, bring, espBuf, pLink, pBcast,
                   stream, env, hist>>

W_WaitCheck ==
    /\ UNCHANGED <<beam, panel>>
    /\ prog = "WifiTest"
    /\ ex = "drain"
    /\ espRx = <<>>
    /\ LET v == WaitVerdict(acc, accLen, Expect1(pc), Expect2(pc)) IN
       /\ accLen' = IF EchoEnds(pc, v) THEN 0 ELSE accLen
       /\ st' = IF EchoEnds(pc, v) THEN "S_IDLE" ELSE st
       /\ IF v = "none"
          THEN /\ ex' = "wait"
               /\ UNCHANGED <<prog, pc, espRx, res, bring, pBcast>>
          ELSE Return(pc, v, espRx)
    /\ UNCHANGED <<tx, acc, clock, gotByte, wPump, curId, curLen, got, pollGot, espBuf,
                   pLink, stream, env, hist>>

\* the while condition of waitToken / espWaitFor fails: return false
WaitTimeout ==
    /\ UNCHANGED <<beam, panel>>
    /\ ex = "wait"
    /\ elapsed >= timeoutMs
    /\ espRx = <<>>
    /\ Return(pc, "fail", espRx)
    /\ accLen' = IF EchoEnds(pc, "fail") THEN 0 ELSE accLen
    /\ st' = IF EchoEnds(pc, "fail") THEN "S_IDLE" ELSE st
    /\ UNCHANGED <<tx, acc, clock, gotByte, wPump, curId, curLen, got, pollGot, espBuf,
                   pLink, stream, env, hist>>

(***************************************************************************)
(* part_000 espWaitFor: one byte of the inner while (esp.available()) loop *)
(* and the step back to the timeout test when no byte is available.        *)
(***************************************************************************)
StreamState == [note |-> note, truth |-> truth, fresh |-> fresh, fallen |-> sta = "fail"]

SetStream(g) ==
    /\ note' = g.note
    /\ truth' = g.truth
    /\ fresh' = g.fresh

P_WaitByte ==
    /\ UNCHANGED <<beam, panel>>
    /\ prog = "part_000"
    /\ ex \in {"wait", "drain"}
    /\ espRx # <<>>
    /\ LET c == Head(espRx)
           a == Append(acc, c)
           m == TrackLinks(a, activeMask)
       IN  /\ acc' = a
           /\ activeMask' = m
           /\ maskLog' = IF m # activeMask THEN Append(maskLog, m) ELSE maskLog
           /\ espBuf' = Accumulate(a, espBuf, c)
           /\ SetStream(StreamByte(StreamState, c))
           /\ gotByte' = TRUE
           /\ IF EndsWith(a, Expect1(pc))
              THEN Return(pc, "ok", Tail(espRx))
              ELSE /\ ex' = "drain"
                   /\ espRx' = Tail(espRx)
                   /\ UNCHANGED <<prog, pc, res, bring, pBcast>>
    /\ UNCHANGED <<tx, accLen, clock, wPump, wPoll, env, hist>>

P_WaitNoByte ==
    /\ UNCHANGED <<beam, panel>>
    /\ prog = "part_000"
    /\ ex = "drain"
    /\ espRx = <<>>
    /\ ex' = "wait"
    /\ UNCHANGED <<prog, pc, espRx, tx, acc, accLen, clock, res, gotByte, wPump, wPoll,
                   bring, espBuf, pLink, pBcast, stream, env, hist>>

(***************************************************************************)
(* The module emits a notification or a data frame on its own.             *)
(***************************************************************************)
\* where the module's own output falls: while the program waits in one of
\* these exchanges (the join, before any fallback; the two waits of a send),
\* or in loop()
EventSteps ==
    {"joinSTA.CWJAP", "echo.SENDOK", "espTrySTA.CWJAP", "espSendTo.CIPSEND",
     "espSendTo.SENDOK"}

\* a data frame may arrive in two parts, the second one in the payload (the
\* two read loops of WifiTest then share it)
EventCuts(e) ==
    IF e = FrameText /\ prog = "WifiTest" THEN {Len(e), Len(e) - 3} ELSE {Len(e)}

Unsolicited ==
    /\ UNCHANGED <<beam, panel>>
    /\ events < MaxEvents
    /\ espRx = <<>> /\ more = <<>>
    /\ \/ pc \in EventSteps /\ ex = "wait" /\ elapsed < timeoutMs
       \/ pc \in {WLoopPump, WLoopPoll, PLoop}
    /\ \E e \in Events(prog) : \E k \in EventCuts(e) :
          /\ espRx' = SubSeq(e, 1, k)
          /\ more' = SubSeq(e, k + 1, Len(e))
          /\ sentFrames' = IF e = FrameText THEN sentFrames + 1 ELSE sentFrames
    /\ events' = events + 1
    /\ UNCHANGED <<ctl, tx, acc, accLen, clock, res, gotByte, wPump, wPoll, bring,
                   espBuf, pLink, pBcast, stream, faults, owed, hist>>

\* the locals and the return value of the last exchange are gone once its
\* caller has gone on
Forget ==
    /\ res' = "none"
    /\ reply' = <<>>
    /\ late' = <<>>
    /\ gotByte' = FALSE
    /\ elapsed' = 0
    /\ timeoutMs' = 0

(***************************************************************************)
(* WifiTest loop(): pumpESP(); pollAndEchoIPD();                           *)
(***************************************************************************)
W_LoopPumpByte ==
    /\ UNCHANGED <<beam, panel>>
    /\ prog = "WifiTest"
    /\ pc = WLoopPump
    /\ Forget
    /\ espRx # <<>>
    /\ SetPump(PumpByte(PumpState, Head(espRx)))
    /\ espRx' = Tail(espRx)
    /\ UNCHANGED <<ctl, tx,  wPoll, bring, espBuf, pLink, pBcast,
                   stream, env, delivered, fed>>

W_LoopPumpEnd ==
    /\ UNCHANGED <<beam, panel>>
    /\ prog = "WifiTest"
    /\ pc = WLoopPump
    /\ Forget
    /\ espRx = <<>>
    /\ pc' = WLoopPoll
    /\ UNCHANGED <<prog, ex, espRx, tx, acc, accLen,  wPump, wPoll,
                   bring, espBuf, pLink, pBcast, stream, env, delivered, fed>>

\* one byte of the while (esp.available()) loop of pollAndEchoIPD
W_PollByte ==
    /\ UNCHANGED <<beam, panel>>
    /\ prog = "WifiTest"
    /\ pc = WLoopPoll
    /\ Forget
    /\ espRx # <<>>
    /\ LET c == Head(espRx)
           p == pushAcc(acc, accLen, c)
           str == CStr(p.acc)
           h == IndexOf(str, tokIPD)
           colon == IF h < 0 THEN -1 ELSE IndexOfFrom(str, <<":">>, h)
           pstr == From(str, h + 5)
           comma2 == IndexOf(pstr, <<",">>)
           id == atoi(pstr)
           len == IF comma2 >= 0 THEN atoi(From(pstr, comma2 + 1)) ELSE -1
           room == p.accLen < AccSize - 1
           a2 == IF room THEN Store(Store(p.acc, p.accLen, c), p.accLen + 1, NUL)
                 ELSE p.acc
           n2 == IF room THEN p.accLen + 1 ELSE p.accLen
       IN  /\ espRx' = Tail(espRx)
           /\ IF st = "S_IDLE" /\ h >= 0 /\ colon >= 0
              THEN /\ curId' = id
                   /\ curLen' = len
                   /\ got' = 0
                   /\ pollGot' = <<>>
                   /\ acc' = p.acc
                   /\ accLen' = 0
                   /\ st' = IF id >= 0 /\ len > 0 THEN "S_READING" ELSE "S_IDLE"
                   /\ UNCHANGED <<pc, delivered>>
              ELSE IF st = "S_READING"
              THEN /\ acc' = a2
                   /\ accLen' = n2
                   /\ got' = got + 1
                   /\ IF got + 1 >= curLen
                      THEN /\ pc' = "echo.CIPSEND"
                           /\ pollGot' = <<>>
                           /\ delivered' = Append(delivered,
                                  [id |-> curId, payload |-> Append(pollGot, c)])
                      ELSE /\ pollGot' = Append(pollGot, c)
                           /\ UNCHANGED <<pc, delivered>>
                   /\ UNCHANGED <<st, curId, curLen>>
              ELSE /\ acc' = p.acc
                   /\ accLen' = p.accLen
                   /\ UNCHANGED <<pc, wPoll, delivered>>
    /\ UNCHANGED <<prog, ex, tx,  wPump, bring, espBuf, pLink,
                   pBcast, stream, env, fed>>

W_PollEnd ==
    /\ UNCHANGED <<beam, panel>>
    /\ prog = "WifiTest"
    /\ pc = WLoopPoll
    /\ Forget
    /\ espRx = <<>>
    /\ pc' = WLoopPump
    /\ UNCHANGED <<prog, ex, espRx, tx, acc, accLen,  wPump, wPoll,
                   bring, espBuf, pLink, pBcast, stream, env, delivered, fed>>

(***************************************************************************)
(* part_000 loop(): drain the receive buffer into espBuf (P_LoopByte), and *)
(* when no byte is available espPollForCommands() and, once a second,      *)
(* espBroadcast of the readings that are not NaN (P_LoopPoll).  Buttons,   *)
(* sensors and display are outside this model.                             *)
(***************************************************************************)
P_LoopByte ==
    /\ UNCHANGED <<beam, panel>>
    /\ prog = "part_000"
    /\ pc = PLoop
    /\ Forget
    /\ acc' = <<>>
    /\ espRx # <<>>
    /\ espBuf' = EspAppend(espBuf, Head(espRx))
    /\ SetStream(StreamByte(StreamState, Head(espRx)))
    /\ espRx' = Tail(espRx)
    /\ UNCHANGED <<ctl, tx, accLen,  wPump, wPoll, bring,
                   pLink, pBcast, env, delivered, fed>>

P_LoopPoll ==
    /\ UNCHANGED <<beam, buttons>>
    /\ prog = "part_000"
    /\ pc = PLoop
    /\ Forget
    /\ acc' = <<>>
    /\ espRx = <<>>
    /\ LET r == PollCommands(espBuf, <<>>)
           e == SetSensors([en1 |-> en1, en2 |-> en2], r.out)
       IN
       /\ espBuf' = r.espBuf
       /\ delivered' = delivered \o r.out
       /\ en1' = e.en1
       /\ en2' = e.en2
    /\ \E n \in 0..2 :
          IF n = 0
          THEN UNCHANGED <<pc, pBcast>>
          ELSE /\ bcasts < MaxBroadcasts
               /\ pc' = PBroadcast
               /\ todo' = n
               /\ bi' = 0
               /\ bcasts' = bcasts + 1
    /\ UNCHANGED <<prog, ex, espRx, tx, accLen,  wPump, wPoll,
                   bring, pLink, stream, env, fed>>

\* for (uint8_t i=0;i<5;i++) if (activeMask & (1<<i)) espSendTo(i, line);
P_Broadcast ==
    /\ UNCHANGED <<beam, panel>>
    /\ prog = "part_000"
    /\ pc = PBroadcast
    /\ Forget
    /\ acc' = <<>>
    /\ LET open == {i \in bi..4 : Bit(activeMask, i)} IN
       IF open # {}
       THEN /\ bi' = CHOOSE i \in open : \A j \in open : i <= j
            /\ pc' = "espSendTo.CIPSEND"
            /\ UNCHANGED todo
       ELSE /\ bi' = 0
            /\ todo' = todo - 1
            /\ pc' = IF todo > 1 THEN PBroadcast ELSE PLoop
    /\ UNCHANGED <<prog, ex, espRx, tx, accLen,  wPump, wPoll,
                   bring, espBuf, pLink, bcasts, stream, env, delivered, fed>>

Next ==
    \/ Issue
    \/ Reply
    \/ Deliver
    \/ Tick
    \/ W_WaitByte
    \/ W_WaitCheck
    \/ WaitTimeout
    \/ P_WaitByte
    \/ P_WaitNoByte
    \/ Unsolicited
    \/ W_LoopPumpByte
    \/ W_LoopPumpEnd
    \/ W_PollByte
    \/ W_PollEnd
    \/ P_LoopByte
    \/ P_LoopPoll
    \/ P_Broadcast

Spec == Init /\ [][Next]_vars

(***************************************************************************)
(* setup() alone: bring-up against a module that emits nothing on its own. *)
(***************************************************************************)
NextSetup ==
    \/ Issue
    \/ Reply
    \/ Deliver
    \/ Tick
    \/ W_WaitByte
    \/ W_WaitCheck
    \/ WaitTimeout
    \/ P_WaitByte
    \/ P_WaitNoByte

SpecSetup == Init /\ [][NextSetup]_vars

(***************************************************************************)
(* The link tracking of espWaitFor alone: the first exchange of part_000   *)
(* waits on a module that answers nothing while notifications for any of   *)
(* the links 0..4 arrive.                                                  *)
(***************************************************************************)
AnyNote ==
    /\ UNCHANGED <<beam, panel>>
    /\ prog = "part_000"
    /\ ex = "wait"
    /\ espRx = <<>>
    /\ events < MaxEvents
    /\ \E i \in 0..4, k \in {"CONNECT", "CLOSED"} : espRx' = NoteText(i, k)
    /\ events' = events + 1
    /\ UNCHANGED <<ctl, tx, acc, accLen, clock, res, gotByte, wPump, wPoll, bring,
                   espBuf, pLink, pBcast, stream, sentFrames, faults, owed, more, hist>>

InitLinks == Init /\ prog = "part_000"

NextLinks ==
    \/ Issue
    \/ AnyNote
    \/ P_WaitByte
    \/ P_WaitNoByte

SpecLinks == InitLinks /\ [][NextLinks]_vars

(***************************************************************************)
(* The same, with notifications that name no link of the table: the id 5,  *)
(* and a character that is no digit where the id stands.                   *)
(***************************************************************************)
OddNotes ==
    {NoteText(5, "CONNECT"), NoteText(5, "CLOSED"), <<"x", ",">> \o tokCONNECT}

OddNote ==
    /\ UNCHANGED <<beam, panel>>
    /\ prog = "part_000"
    /\ ex = "wait"
    /\ espRx = <<>>
    /\ events < MaxEvents
    /\ \E n \in OddNotes : espRx' = n
    /\ events' = events + 1
    /\ UNCHANGED <<ctl, tx, acc, accLen, clock, res, gotByte, wPump, wPoll, bring,
                   espBuf, pLink, pBcast, stream, sentFrames, faults, owed, more, hist>>

NextNotes ==
    \/ Issue
    \/ AnyNote
    \/ OddNote
    \/ P_WaitByte
    \/ P_WaitNoByte

SpecNotes == InitLinks /\ [][NextNotes]_vars

(***************************************************************************)
(* An exchange of part_000 during which other traffic keeps arriving and   *)
(* the token does not: espWaitFor reads one byte after the other into its  *)
(* String acc.  The run is followed until acc has passed the size that     *)
(* espBuf is held to.                                                      *)
(***************************************************************************)
Flood ==
    /\ UNCHANGED <<beam, panel>>
    /\ prog = "part_000"
    /\ ex = "wait"
    /\ espRx = <<>>
    /\ Len(acc) <= EspBufMax
    /\ espRx' = <<".">>
    /\ UNCHANGED <<ctl, tx, acc, accLen, clock, res, gotByte, wPump, wPoll, bring,
                   espBuf, pLink, pBcast, stream, env, hist>>

NextFlood ==
    \/ Issue
    \/ Flood
    \/ P_WaitByte
    \/ P_WaitNoByte

SpecFlood == InitLinks /\ [][NextFlood]_vars

(***************************************************************************)
(* loop() alone, on a byte stream: the module answers no command, so that  *)
(* setup() runs into loop() with every exchange timed out, and then sends  *)
(* one of a few byte streams, which arrives in chunks of any size.         *)
(***************************************************************************)
Text(id, len, payload) == tokIPD \o <<id, ",", len, ":">> \o payload

HdrLenZero == Text("1", "0", <<"a", "b">>)
HdrBadId == Text("x", "2", <<"a", "b">>)
HdrBadLen == Text("1", "x", <<"a", "b">>)
HdrFarId == Text("7", "2", <<"a", "b">>)
BadHeaders == {HdrLenZero, HdrBadId, HdrBadLen, HdrFarId}

\* a frame followed by other traffic that holds a colon
FrameThenColon == Text("1", "2", <<"a", "b">>) \o <<"c", ":", "d">>
\* two frames, for the links 1 and 2
TwoFrames == Text("1", "1", <<"a">>) \o Text("2", "1", <<"b">>)
\* a frame whose payload holds a newline and a colon
SyntaxPayload == <<"a", LF, "b", ":", "c">>
SyntaxFrame == Text("1", "5", SyntaxPayload)

\* more bytes than acc holds, and then a frame
LongStream == [k \in 1..FillLen |-> "."] \o Text("1", "1", <<"a">>)

Streams(p) ==
    IF p = "WifiTest"
    THEN BadHeaders \cup {FrameText, FrameThenColon, TwoFrames, SyntaxFrame, LongStream}
    ELSE {FrameText, SyntaxFrame, NoteText(2, "CONNECT")}

\* the module does not answer the command
Mute ==
    /\ UNCHANGED <<beam, panel>>
    /\ owed # "none"
    /\ ex \in {"wait", "idle"}
    /\ espRx = <<>> /\ more = <<>>
    /\ owed' = "none"
    /\ UNCHANGED <<ctl, espRx, tx, acc, accLen, clock, res, gotByte, wPump, wPoll,
                   bring, espBuf, pLink, pBcast, stream, events, sentFrames, faults,
                   more, hist>>

\* the module starts to send a stream while the sketch is in loop()
Feed ==
    /\ UNCHANGED <<beam, panel>>
    /\ pc \in {WLoopPump, WLoopPoll, PLoop}
    /\ fed = <<>> /\ espRx = <<>> /\ more = <<>>
    /\ \E s \in Streams(prog) : fed' = s /\ more' = s
    /\ UNCHANGED <<ctl, espRx, tx, acc, accLen, clock, res, gotByte, wPump, wPoll,
                   bring, espBuf, pLink, pBcast, stream, events, sentFrames, faults,
                   owed, reply, delivered, late>>

\* the next chunk of the stream arrives in the receive buffer
Arrive ==
    /\ UNCHANGED <<beam, panel>>
    /\ fed # <<>>
    /\ more # <<>>
    /\ espRx = <<>>
    /\ \E k \in 1..Len(more) :
          /\ espRx' = SubSeq(more, 1, k)
          /\ more' = SubSeq(more, k + 1, Len(more))
    /\ UNCHANGED <<ctl, tx, acc, accLen, clock, res, gotByte, wPump, wPoll, bring,
                   espBuf, pLink, pBcast, stream, events, sentFrames, faults, owed,
                   hist>>

NextParse ==
    \/ Issue
    \/ Mute
    \/ Tick
    \/ Feed
    \/ Arrive
    \/ W_WaitByte
    \/ W_WaitCheck
    \/ WaitTimeout
    \/ P_WaitNoByte
    \/ W_LoopPumpByte
    \/ W_LoopPumpEnd
    \/ W_PollByte
    \/ W_PollEnd
    \/ P_LoopByte
    \/ P_LoopPoll
    \/ P_Broadcast

SpecParse == Init /\ [][NextParse]_vars

(***************************************************************************)
(* espBroadcast over several links: the module answers no command, links   *)
(* open and close while part_000 waits, and loop() broadcasts.             *)
(***************************************************************************)
\* the module answers a send announcement with its prompt
Prompt ==
    /\ UNCHANGED <<beam, panel>>
    /\ owed \in {"echo.CIPSEND", "espSendTo.CIPSEND"}
    /\ ex = "wait"
    /\ elapsed < timeoutMs
    /\ espRx = <<>> /\ more = <<>>
    /\ espRx' = tokPrompt
    /\ reply' = tokPrompt
    /\ owed' = "none"
    /\ UNCHANGED <<ctl, tx, acc, accLen, clock, res, gotByte, wPump, wPoll, bring,
                   espBuf, pLink, pBcast, stream, events, sentFrames, faults, more,
                   delivered, late, fed>>

NextBcast ==
    \/ Issue
    \/ Mute
    \/ Prompt
    \/ AnyNote
    \/ Tick
    \/ WaitTimeout
    \/ P_WaitByte
    \/ P_WaitNoByte
    \/ P_LoopPoll
    \/ P_Broadcast

SpecBcast == InitLinks /\ [][NextBcast]_vars

(***************************************************************************)
(* waitToken under traffic that does not stop: while WifiTest is inside    *)
(* the while (esp.available()) loop of pumpESP() the next byte may arrive  *)
(* before the loop tests available() again.  The clock runs on wherever    *)
(* the sketch is.  The sketch and the clock always go on (weak fairness);  *)
(* nothing obliges the module to send or to stop.                          *)
(***************************************************************************)
Storm ==
    /\ UNCHANGED <<beam, panel>>
    /\ prog = "WifiTest"
    /\ ex = "drain"
    /\ espRx = <<>>
    /\ espRx' = <<".">>
    /\ UNCHANGED <<ctl, tx, acc, accLen, clock, res, gotByte, wPump, wPoll, bring,
                   espBuf, pLink, pBcast, stream, env, hist>>

\* millis() advances
Clock ==
    /\ UNCHANGED <<beam, panel>>
    /\ ex \in {"wait", "drain"}
    /\ elapsed < timeoutMs
    /\ elapsed' = Min(timeoutMs, elapsed + Quantum(timeoutMs))
    /\ UNCHANGED <<ctl, espRx, tx, acc, accLen, timeoutMs, res, gotByte, wPump, wPoll,
                   bring, espBuf, pLink, pBcast, stream, env, hist>>

\* the steps of the sketch; for the two steps that run pumpESP() the weak
\* fairness condition is written out, with the guard of the step in the
\* place of ENABLED
Sketch ==
    \/ Issue
    \/ WaitTimeout

ReadReady == prog = "WifiTest" /\ ex \in {"wait", "drain"} /\ espRx # <<>>
CheckReady == prog = "WifiTest" /\ ex = "drain" /\ espRx = <<>>

FairRead == []<>(~ReadReady) \/ []<><<W_WaitByte>>_vars
FairCheck == []<>(~CheckReady) \/ []<><<W_WaitCheck>>_vars

InitWifiTest == Init /\ prog = "WifiTest"

NextStorm ==
    \/ Issue
    \/ Storm
    \/ Clock
    \/ W_WaitByte
    \/ W_WaitCheck
    \/ WaitTimeout

SpecStorm ==
    /\ InitWifiTest /\ [][NextStorm]_vars
    /\ WF_vars(Sketch) /\ FairRead /\ FairCheck
    /\ WF_vars(Clock)

(***************************************************************************)
(* The echo of pollAndEchoIPD alone: the module answers no command but the *)
(* send announcement, and sends one frame while WifiTest is in loop(): the *)
(* usual one, or one whose payload is one byte longer than acc[].  The     *)
(* frame arrives in one piece.                                             *)
(***************************************************************************)
BigFrame ==
    tokIPD \o <<"1", ",", "1", "2", "9", ":">> \o [k \in 1..(AccSize + 1) |-> "."]

FeedFrame ==
    /\ UNCHANGED <<beam, panel>>
    /\ pc \in {WLoopPump, WLoopPoll}
    /\ fed = <<>> /\ espRx = <<>> /\ more = <<>>
    /\ \E s \in {FrameText, BigFrame} : fed' = s /\ more' = s
    /\ UNCHANGED <<ctl, espRx, tx, acc, accLen, clock, res, gotByte, wPump, wPoll,
                   bring, espBuf, pLink, pBcast, stream, events, sentFrames, faults,
                   owed, reply, delivered, late>>

NextEcho ==
    \/ Issue
    \/ Mute
    \/ Prompt
    \/ Tick
    \/ FeedFrame
    \/ Deliver
    \/ W_WaitByte
    \/ W_WaitCheck
    \/ WaitTimeout
    \/ W_LoopPumpByte
    \/ W_LoopPumpEnd
    \/ W_PollByte
    \/ W_PollEnd

SpecEcho == InitWifiTest /\ [][NextEcho]_vars

(***************************************************************************)
(* setup() against a module that, besides the answers of SpecSetup, may    *)
(* leave any number of commands without an answer.                         *)
(***************************************************************************)
NextFallback ==
    \/ Issue
    \/ Reply
    \/ Deliver
    \/ Mute
    \/ Tick
    \/ W_WaitByte
    \/ W_WaitCheck
    \/ WaitTimeout
    \/ P_WaitByte
    \/ P_WaitNoByte

SpecFallback == Init /\ [][NextFallback]_vars

(***************************************************************************)
(* part_000 loop() on command frames: as above the module answers no       *)
(* command, and then a client sends one or two lines, each in a frame of   *)
(* its own, that arrive in chunks of any size.                             *)
(***************************************************************************)
JsonS1On ==
    <<"{", "\"", "c", "o", "m", "m", "a", "n", "d", "\"", ":", "\"", "s",
      "e", "t", "_", "s", "e", "n", "s", "o", "r", "\"", ",", "\"", "s", "e",
      "n", "s", "o", "r", "\"", ":", "\"", "s", "1", "\"", ",", "\"", "s",
      "t", "a", "t", "e", "\"", ":", "\"", "o", "n", "\"", "}">>
JsonS1Off ==
    <<"{", "\"", "c", "o", "m", "m", "a", "n", "d", "\"", ":", "\"", "s",
      "e", "t", "_", "s", "e", "n", "s", "o", "r", "\"", ",", "\"", "s", "e",
      "n", "s", "o", "r", "\"", ":", "\"", "s", "1", "\"", ",", "\"", "s",
      "t", "a", "t", "e", "\"", ":", "\"", "o", "f", "f", "\"", "}">>
JsonS2On ==
    <<"{", "\"", "c", "o", "m", "m", "a", "n", "d", "\"", ":", "\"", "s",
      "e", "t", "_", "s", "e", "n", "s", "o", "r", "\"", ",", "\"", "s", "e",
      "n", "s", "o", "r", "\"", ":", "\"", "S", "2", "\"", ",", "\"", "s",
      "t", "a", "t", "e", "\"", ":", "\"", "O", "N", "\"", "}">>
JsonS2Off ==
    <<"{", "\"", "c", "o", "m", "m", "a", "n", "d", "\"", ":", "\"", "s",
      "e", "t", "_", "s", "e", "n", "s", "o", "r", "\"", ",", "\"", "s", "e",
      "n", "s", "o", "r", "\"", ":", "\"", "s", "2", "\"", ",", "\"", "s",
      "t", "a", "t", "e", "\"", ":", "\"", "o", "f", "f", "\"", "}">>
JsonSpaced ==
    <<"{", "\"", "c", "o", "m", "m", "a", "n", "d", "\"", ":", " ", "\"",
      "s", "e", "t", "_", "s", "e", "n", "s", "o", "r", "\"", ",", " ", "\"",
      "s", "e", "n", "s", "o", "r", "\"", ":", " ", "\"", "s", "1", "\"",
      ",", " ", "\"", "s", "t", "a", "t", "e", "\"", ":", " ", "\"", "o",
      "n", "\"", "}">>
JsonPing ==
    <<"{", "\"", "c", "o", "m", "m", "a", "n", "d", "\"", ":", "\"", "p",
      "i", "n", "g", "\"", "}">>
PlainText ==
    <<"s", "e", "t", "_", "s", "e", "n", "s", "o", "r", " ", "\"", "c", "o",
      "m", "m", "a", "n", "d", "\"", " ", "\"", "s", "e", "n", "s", "o", "r",
      "\"", ":", "\"", "s", "1", "\"", " ", "\"", "s", "t", "a", "t", "e",
      "\"", ":", "\"", "o", "n", "\"">>

\* the frame that carries the line text on link 0
CommandLine(text) ==
    LET n == Len(text) + 1 IN
    tokIPD \o <<"0", ",", Digits[(n \div 10) + 1], Digits[(n % 10) + 1], ":">>
           \o text \o <<LF>>

CommandStreams ==
    {CommandLine(JsonS1On) \o CommandLine(JsonS1Off),
     CommandLine(JsonS2On) \o CommandLine(JsonS2Off),
     CommandLine(JsonS1On) \o CommandLine(JsonS2On),
     CommandLine(JsonSpaced),
     CommandLine(JsonPing),
     CommandLine(PlainText)}

\* a client starts to send while the sketch is in loop()
FeedCommand ==
    /\ UNCHANGED <<beam, panel>>
    /\ pc = PLoop
    /\ fed = <<>> /\ espRx = <<>> /\ more = <<>>
    /\ \E s \in CommandStreams : fed' = s /\ more' = s
    /\ UNCHANGED <<ctl, espRx, tx, acc, accLen, clock, res, gotByte, wPump, wPoll,
                   bring, espBuf, pLink, pBcast, stream, events, sentFrames, faults,
                   owed, reply, delivered, late>>

NextCommands ==
    \/ Issue
    \/ Mute
    \/ Tick
    \/ FeedCommand
    \/ Arrive
    \/ WaitTimeout
    \/ P_WaitNoByte
    \/ P_LoopByte
    \/ P_LoopPoll
    \/ P_Broadcast

SpecCommands == InitLinks /\ [][NextCommands]_vars

(***************************************************************************)
(* finalcode.ino, the beam detector.  loop() fills two sets of M_SAMPLES   *)
(* samples and then calls processData(), which decides from the samples    *)
(* whether the last set shows the signal (blockedNow is its negation) and  *)
(* runs the hysteresis on blockCounter.  The samples are analogue input:   *)
(* the model takes blockedNow itself as the input of each call.            *)
(***************************************************************************)
N_SETS == 20
M_SAMPLES == 10
Y_MAX_BLOCK_COUNT == 7
Y_DECAY_STEP == 1

\* (a clamp that has no lower limit)
clampi_NoFloor(v, lo, hi) == IF v > hi THEN hi ELSE v
\* static inline int clampi(int v, int lo, int hi)
clampi(v, lo, hi) == IF v < lo THEN lo ELSE IF v > hi THEN hi ELSE v

\* (a clear detection that resets the counter)
Decay_Reset(counter) == 0
\* blockCounter = clampi(blockCounter - Y_DECAY_STEP, 0, Y_MAX_BLOCK_COUNT)
Decay(counter) == clampi(counter - Y_DECAY_STEP, 0, Y_MAX_BLOCK_COUNT)

\* the hysteresis of processData: latch at Y_MAX_BLOCK_COUNT, clear at 0
Hysteresis(blocked, counter, b) ==
    IF ~blocked
    THEN IF b
         THEN LET c == clampi(counter + 1, 0, Y_MAX_BLOCK_COUNT) IN
              IF c >= Y_MAX_BLOCK_COUNT
              THEN [beamBlocked |-> TRUE, blockCounter |-> Y_MAX_BLOCK_COUNT]
              ELSE [beamBlocked |-> FALSE, blockCounter |-> c]
         ELSE [beamBlocked |-> FALSE,
               blockCounter |-> Decay(counter)]
    ELSE IF b
         THEN [beamBlocked |-> TRUE, blockCounter |-> Y_MAX_BLOCK_COUNT]
         ELSE LET c == Decay(counter) IN
              [beamBlocked |-> c # 0, blockCounter |-> c]

\* (an email whenever the beam is blocked)
RisingEdge_Level(now, before) == now
\* if (beamBlocked && !prev)
RisingEdge(now, before) == now /\ ~before

\* sendAlertEmail: the session may fail to connect and the send may fail
MailOutcomes == {"sent", "connect failed", "send failed"}

\* int is 32 bits wide on the ESP32
INT_MAX == 2147483647
INT_MIN == (-INT_MAX) - 1

\* setCycleCount++ : beyond INT_MAX the increment of the build wraps
Inc32(n) == IF n = INT_MAX THEN INT_MIN ELSE n + 1

\* n % 3 of C, which has the sign of n
Rem3(n) == IF n >= 0 \/ n % 3 = 0 THEN n % 3 ELSE (n % 3) - 3

\* int phase = (setCycleCount % 3)
Phase(n) == Rem3(n)

\* the sets completed when setCycleCount has counted up to n >= 0
SetsBy(n) == 2 * (n \div 3) + Min(n % 3, 2)

\* the longest stretch of a run that is followed: MaxCycles increments from
\* reset, and from LateStart, a lapse boundary shortly before INT_MAX that a
\* detector left running reaches, MaxCycles increments past the wrap
MaxCycles == 45
LateStart == INT_MAX - 4
Followed(n) ==
    \/ 0 <= n /\ n < MaxCycles
    \/ n >= LateStart
    \/ n < INT_MIN + MaxCycles

\* the sampling phase of loop(): one sample into sets[currentSet]
Sample ==
    /\ prog = "finalcode"
    /\ Followed(setCycleCount)
    /\ Phase(setCycleCount) < 2
    /\ IF currentSample + 1 >= M_SAMPLES
       THEN /\ currentSample' = 0
            /\ currentSet' = (currentSet + 1) % N_SETS
            /\ setCycleCount' = Inc32(setCycleCount)
       ELSE /\ currentSample' = currentSample + 1
            /\ UNCHANGED <<currentSet, setCycleCount>>
    /\ recorded' = Min(recorded + 1, 2 * M_SAMPLES + 1)
    /\ UNCHANGED <<beamBlocked, prevBeamBlocked, blockCounter, ledPin, mail, prev,
                   blockedNow, blockedRun, clearRun, panel>>
    /\ UNCHANGED <<ctl, espRx, tx, acc, accLen, clock, res, gotByte, wPump, wPoll,
                   bring, espBuf, pLink, pBcast, stream, env, hist>>

\* the lapse phase of loop(): processData(); setCycleCount++
processData ==
    /\ prog = "finalcode"
    /\ Followed(setCycleCount)
    /\ ~(Phase(setCycleCount) < 2)
    /\ \E b \in BOOLEAN :
          LET h == Hysteresis(beamBlocked, blockCounter, b) IN
          /\ blockedNow' = b
          /\ prev' = beamBlocked
          /\ beamBlocked' = h.beamBlocked
          /\ blockCounter' = h.blockCounter
          /\ ledPin' = IF h.beamBlocked THEN "HIGH" ELSE "LOW"
          /\ IF RisingEdge(h.beamBlocked, beamBlocked)
             THEN mail' \in MailOutcomes
             ELSE mail' = "none"
          /\ prevBeamBlocked' = h.beamBlocked
          /\ blockedRun' = IF b THEN Min(blockedRun + 1, Y_MAX_BLOCK_COUNT) ELSE 0
          /\ clearRun' = IF b THEN 0 ELSE Min(clearRun + 1, Y_MAX_BLOCK_COUNT)
    /\ setCycleCount' = Inc32(setCycleCount)
    /\ recorded' = 0
    /\ UNCHANGED <<currentSet, currentSample, panel>>
    /\ UNCHANGED <<ctl, espRx, tx, acc, accLen, clock, res, gotByte, wPump, wPoll,
                   bring, espBuf, pLink, pBcast, stream, env, hist>>

\* the detector at reset, and an idle detector at the lapse boundary LateStart
InitBeam ==
    /\ prog = "finalcode"
    /\ pc = "finalcode.loop"
    /\ InitGlobals
    /\ InitPanel
    /\ \/ InitBeamState
       \/ /\ beamBlocked = FALSE /\ prevBeamBlocked = FALSE /\ blockCounter = 0
          /\ setCycleCount = LateStart
          /\ currentSet = SetsBy(LateStart) % N_SETS /\ currentSample = 0
          /\ ledPin = "LOW" /\ mail = "none" /\ prev = FALSE /\ blockedNow = FALSE
          /\ blockedRun = 0 /\ clearRun = Y_MAX_BLOCK_COUNT /\ recorded = 0

NextBeam ==
    \/ Sample
    \/ processData

SpecBeam == InitBeam /\ [][NextBeam]_vars

(***************************************************************************)
(* TrueCode.ino, the buttons.  loop() reads the two buttons through        *)
(* updateDebounced, toggles a sensor's enable flag when its button fell,   *)
(* and then shows a reading, or OFF followed by delay(50) when both        *)
(* sensors are disabled.  Time passes while the sketch is in a delay; the  *)
(* inputs change at any time.  The web server, the sensors and the display *)
(* are outside this model.                                                 *)
(***************************************************************************)
\* flashS1, flashS2: delay(250)
FlashMs == 250
\* showOFF(); delay(50); return;
IdleMs == 50
\* the clock is followed in steps of half the settle time
StepMs == settleMs \div 2
\* an iteration that shows a reading takes one step
ShowMs == StepMs

MaxMs == 300
MaxEdges == 3

TS1 == "TrueCode.S1"
TS2 == "TrueCode.S2"
TShow == "TrueCode.show"

\* if (millis() - b.lastFlipMs > b.settleMs)
Settled(now, b) == now - b.lastFlipMs > settleMs

\* updateDebounced: the button after the call, and what the call returns
updateDebounced(b, raw, now) ==
    LET f == IF raw # b.lastRead
             THEN [b EXCEPT !.lastRead = raw, !.lastFlipMs = now]
             ELSE b
    IN  IF Settled(now, f) /\ f.lastStable # raw
        THEN [b |-> [f EXCEPT !.lastStable = raw], changed |-> TRUE]
        ELSE [b |-> f, changed |-> FALSE]

\* inline bool fell(const DebouncedButton &b)
fell(b) == b.lastStable = LOW

\* an input changes level: a button is pressed or released, or bounces
Edge ==
    /\ UNCHANGED beam
    /\ prog = "TrueCode"
    /\ edges < MaxEdges
    /\ \E i \in Buttons :
          /\ pin' = [pin EXCEPT ![i] = ~pin[i]]
          /\ IF pin[i] = HIGH
             THEN /\ lowSince' = [lowSince EXCEPT ![i] = millis]
                  /\ toggles' = [toggles EXCEPT ![i] = 0]
             ELSE UNCHANGED <<lowSince, toggles>>
    /\ edges' = edges + 1
    /\ UNCHANGED <<enable, btn, millis, busyUntil>>
    /\ UNCHANGED <<ctl, espRx, tx, acc, accLen, clock, res, gotByte, wPump, wPoll,
                   bring, espBuf, pLink, pBcast, stream, env, hist>>

\* time passes while the sketch is in a delay
Pass ==
    /\ UNCHANGED beam
    /\ prog = "TrueCode"
    /\ millis < busyUntil
    /\ millis < StartMs + MaxMs
    /\ millis' = millis + StepMs
    /\ UNCHANGED <<enable, btn, pin, busyUntil, lowSince, toggles, edges>>
    /\ UNCHANGED <<ctl, espRx, tx, acc, accLen, clock, res, gotByte, wPump, wPoll,
                   bring, espBuf, pLink, pBcast, stream, env, hist>>

\* if (updateDebounced(btnS1) && fell(btnS1)) { en1 = !en1; flashS1(en1); }
T_ButtonS1 ==
    /\ UNCHANGED beam
    /\ prog = "TrueCode"
    /\ pc = TS1
    /\ millis >= busyUntil
    /\ LET u == updateDebounced(btn[1], pin[1], millis) IN
       /\ btn' = [btn EXCEPT ![1] = u.b]
       /\ IF u.changed /\ fell(u.b)
          THEN /\ en1' = ~en1
               /\ busyUntil' = millis + FlashMs
               /\ toggles' = [toggles EXCEPT ![1] = Min(toggles[1] + 1, 2)]
          ELSE UNCHANGED <<en1, busyUntil, toggles>>
    /\ pc' = TS2
    /\ UNCHANGED <<en2, pin, millis, lowSince, edges>>
    /\ UNCHANGED <<prog, ex, espRx, tx, acc, accLen, clock, res, gotByte, wPump, wPoll,
                   bring, espBuf, pLink, pBcast, stream, env, hist>>

\* if (updateDebounced(btnS2) && fell(btnS2)) { en2 = !en2; flashS2(en2); }
T_ButtonS2 ==
    /\ UNCHANGED beam
    /\ prog = "TrueCode"
    /\ pc = TS2
    /\ millis >= busyUntil
    /\ LET u == updateDebounced(btn[2], pin[2], millis) IN
       /\ btn' = [btn EXCEPT ![2] = u.b]
       /\ IF u.changed /\ fell(u.b)
          THEN /\ en2' = ~en2
               /\ busyUntil' = millis + FlashMs
               /\ toggles' = [toggles EXCEPT ![2] = Min(toggles[2] + 1, 2)]
          ELSE UNCHANGED <<en2, busyUntil, toggles>>
    /\ pc' = TShow
    /\ UNCHANGED <<en1, pin, millis, lowSince, edges>>
    /\ UNCHANGED <<prog, ex, espRx, tx, acc, accLen, clock, res, gotByte, wPump, wPoll,
                   bring, espBuf, pLink, pBcast, stream, env, hist>>

\* the rest of loop(): OFF and delay(50), or the reading
T_Show ==
    /\ UNCHANGED beam
    /\ prog = "TrueCode"
    /\ pc = TShow
    /\ millis >= busyUntil
    /\ busyUntil' = millis + (IF ~en1 /\ ~en2 THEN IdleMs ELSE ShowMs)
    /\ pc' = TS1
    /\ UNCHANGED <<enable, btn, pin, millis, lowSince, toggles, edges>>
    /\ UNCHANGED <<prog, ex, espRx, tx, acc, accLen, clock, res, gotByte, wPump, wPoll,
                   bring, espBuf, pLink, pBcast, stream, env, hist>>

InitTrueCode ==
    /\ prog = "TrueCode"
    /\ pc = TS1
    /\ InitGlobals
    /\ InitPanel
    /\ InitBeamState

NextTrueCode ==
    \/ Edge
    \/ Pass
    \/ T_ButtonS1
    \/ T_ButtonS2
    \/ T_Show

SpecTrueCode == InitTrueCode /\ [][NextTrueCode]_vars

(***************************************************************************)
(* The claims.                                                             *)
(***************************************************************************)
Range(q) == {q[i] : i \in 1..Len(q)}

\* C1: an exchange during which the module delivers no byte never reports a
\* match, and reports failure only once its timeout has elapsed, whatever
\* earlier exchanges left in the window.
C1_SilentExchangeTimesOut ==
    (ex = "idle" /\ res # "none" /\ ~gotByte /\ owed = tx.step
        /\ espRx = <<>> /\ more = <<>>)
    => (res = "fail" /\ elapsed >= timeoutMs)

\* C2: when the answer of the module holds "ERROR" before any success token
\* of the exchange, the exchange fails, whatever follows the error token.
ErrorFirst(r, e1, e2) ==
    LET e == IndexOf(r, tokERROR) IN
    /\ e >= 0
    /\ \A t \in {e1, e2} \ {NoToken} : IndexOf(r, t) < 0 \/ e < IndexOf(r, t)

C2_ErrorBeforeSuccessFails ==
    (ex = "idle" /\ res # "none" /\ tx.step \in Steps
        /\ ErrorFirst(reply, Expect1(tx.step), Expect2(tx.step)))
    => res = "fail"

\* C3: the payload of a frame is exactly the len bytes after the colon of its
\* header: every frame completed for "+IPD,1,5:hello" has the payload "hello".
C3_PayloadIsLenBytesAfterColon ==
    \A f \in Range(pumpFrames) \cup Range(delivered) : f.payload = Hello

\* C4: every frame the module has sent is parsed and delivered, also when it
\* arrived during an exchange or in two reads: once everything received was
\* processed, as many frames were delivered as were sent.
AllProcessed ==
    /\ pc \in {WLoopPump, PLoop}
    /\ espRx = <<>> /\ more = <<>>
    /\ st = "S_IDLE" /\ ~ipdActive
    /\ IndexOf(espBuf, tokIPD) < 0

C4_EveryFrameDelivered == AllProcessed => Len(delivered) = sentFrames

\* C5: once the bytes of a connect notification for link i in 0..4 have
\* passed through espWaitFor, link i is open in activeMask, and once those of
\* a close notification have, it is closed; from the empty table, connect 2
\* then close 2 gives the open sets {}, {2}, {}.
C5_NotificationSetsAndClearsLink ==
    /\ \A i \in 0..4 :
          /\ EndsWith(acc, NoteText(i, "CONNECT")) => Bit(activeMask, i)
          /\ EndsWith(acc, NoteText(i, "CLOSED")) => ~Bit(activeMask, i)
    /\ acc = NoteText(2, "CONNECT") \o NoteText(2, "CLOSED")
          => [k \in DOMAIN maskLog |-> OpenSet(maskLog[k])] = <<{}, {2}, {}>>

C5_Witness ==
    /\ acc = NoteText(2, "CONNECT") \o NoteText(2, "CLOSED")
    /\ maskLog = <<0, 4, 0>>
    /\ activeMask = 0

\* C6: the link table follows the notifications received, whether an
\* exchange or the idle loop read them: with nothing left to read, the open
\* links are those the received notifications say.
C6_LinkTableFollowsEveryNotification ==
    (prog = "part_000" /\ ex = "idle" /\ espRx = <<>> /\ more = <<>> /\ note = <<>>)
    => OpenSet(activeMask) = truth

\* C7: when the station branch has failed and the access-point configuration,
\* multi-link and server-start exchanges have succeeded, the access-point
\* branch has returned true (and WifiTest has set apMode), whether or not
\* AT+RESTORE matched "ready".
ApExchanges ==
    IF prog = "WifiTest" THEN {"startAP.CIPMUX", "startAP.CIPSERVER"}
    ELSE {"espStartAP.CWSAP", "espStartAP.CIPMUX", "espStartAP.CIPSERVER"}

ApConfigured ==
    prog = "WifiTest" => okSteps \cap {"startAP.CWSAP6", "startAP.CWSAP1"} # {}

C7_FallbackEndsHostingAP ==
    (sta = "fail" /\ ApExchanges \subseteq okSteps /\ ApConfigured)
    => (ap = "ok" /\ (prog = "WifiTest" => apMode))

C7_Witness ==
    /\ prog = "WifiTest"
    /\ sta = "fail" /\ ApExchanges \subseteq okSteps /\ ApConfigured
    /\ "WifiTest.RESTORE" \notin okSteps
    /\ ap = "ok" /\ apMode

\* C8: a branch of bring-up has returned true only if its AT+CIPMUX=1 and its
\* AT+CIPSERVER exchange both matched.
C8_SuccessNeedsMuxAndServer ==
    /\ sta = "ok" =>
          (IF prog = "WifiTest" THEN {"joinSTA.CIPMUX", "joinSTA.CIPSERVER"}
           ELSE {"espTrySTA.CIPMUX", "espTrySTA.CIPSERVER"}) \subseteq okSteps
    /\ ap = "ok" =>
          (IF prog = "WifiTest" THEN {"startAP.CIPMUX", "startAP.CIPSERVER"}
           ELSE {"espStartAP.CIPMUX", "espStartAP.CIPSERVER"}) \subseteq okSteps

\* C9: once the access-point branch has completed after a fallback, the open
\* links are links whose connect notification was received after the fallback.
C9_NoStaleLinkAfterFallback ==
    (prog = "part_000" /\ sta = "fail" /\ ap = "ok") => OpenSet(activeMask) \subseteq fresh

\* C10: the join does not fail when "WIFI GOT IP" or "OK" was in the answer
\* the module gave within the allowed time.
JoinFailed ==
    /\ tx.step \in {"joinSTA.CWJAP", "espTrySTA.CWJAP"}
    /\ pc \in {"WifiTest.RESTORE", "part_000.RESTORE"}
    /\ ex = "idle" /\ res = "fail"

C10_JoinAcceptsEitherToken ==
    JoinFailed => (IndexOf(reply, tokGOTIP) < 0 /\ IndexOf(reply, tokOK) < 0)

\* C11: nothing is written for a link that is not marked open: whenever
\* espSendTo writes its payload, the link it writes to is open in activeMask.
PayloadWritten ==
    /\ pc \in {"echo.SENDOK", "espSendTo.SENDOK"}
    /\ ex = "idle"
    /\ ex' = "drain"

C11_NoWriteForClosedLink ==
    [][(PayloadWritten /\ prog = "part_000") => Bit(activeMask, bi)]_vars

\* C12: the payload of a send is written only after the module has emitted
\* the prompt ">" in reply to the announcement of this send.
C12_PayloadOnlyAfterPrompt ==
    [][PayloadWritten => IndexOf(reply \o late, tokPrompt) >= 0]_vars

\* C13: a header with length 0, with an id or a length that is no number, or
\* with an id outside 0..4 starts no payload read and produces no frame.
C13_BadHeaderStartsNoFrame ==
    (prog = "WifiTest" /\ fed \in BadHeaders)
    => (~ipdActive /\ st = "S_IDLE" /\ pumpFrames = <<>> /\ delivered = <<>>)

\* the stream fed to loop() has arrived and has been read and parsed
Processed ==
    /\ fed # <<>>
    /\ espRx = <<>> /\ more = <<>>
    /\ ex = "idle"
    /\ pc \in {WLoopPump, PLoop}
    /\ PollCommands(espBuf, <<>>).out = <<>>

\* C14: the end of a frame depends on the declared length only: a payload
\* that holds a newline and a colon, or no newline at all, is delivered whole
\* (part_000) and counted to its declared length (WifiTest), and it leaves the
\* link table alone.
Declared(s) == IF s = FrameText THEN Hello ELSE SyntaxPayload

C14_FrameEndsByLengthOnly ==
    /\ (prog = "part_000" /\ fed \in {FrameText, SyntaxFrame} /\ Processed)
          => /\ [k \in DOMAIN delivered |-> delivered[k].payload] = <<Declared(fed)>>
             /\ maskLog = <<0>>
    /\ (prog = "WifiTest" /\ fed = SyntaxFrame /\ Processed)
          => \A f \in Range(pumpFrames) \cup Range(delivered) :
                Len(f.payload) = Len(SyntaxPayload)

\* C15: each reader begins at most as many frames as the stream holds
\* headers, and when pumpESP has read the two frames for the links 1 and 2 its
\* k-th frame carries the id of the k-th header.
HeaderCount(s) == Cardinality({i \in 0..Len(s) : MatchAt(s, tokIPD, i)})

C15_OneFramePerHeader ==
    prog = "WifiTest" =>
       /\ Len(pumpFrames) + (IF ipdActive THEN 1 ELSE 0) <= HeaderCount(fed)
       /\ Len(delivered) + (IF st = "S_READING" /\ pc \in {WLoopPump, WLoopPoll}
                             THEN 1 ELSE 0) <= HeaderCount(fed)
       /\ (fed = TwoFrames /\ curId = -1)
             => \A k \in DOMAIN pumpFrames : pumpFrames[k].id = k

\* C16: the link table changes only in the entry of a link 0..4 whose
\* notification has just been read, and no bit above bit 4 is ever set.
NamedBy(a, m, n) ==
    \E i \in 0..4 :
       \/ EndsWith(a, NoteText(i, "CONNECT")) /\ n = SetBit(m, i)
       \/ EndsWith(a, NoteText(i, "CLOSED")) /\ n = ClearBit(m, i)

C16_OnlyNamedLinkChanges ==
    /\ [](activeMask < 32)
    /\ [][activeMask' # activeMask => NamedBy(acc', activeMask, activeMask')]_vars

\* C17: a token that lies in the window, the accLen bytes of acc kept by the
\* last eviction and pushed since, is found by strstr on acc.
Window == [k \in 1..accLen |-> At(acc, k - 1)]

SearchedTokens == {tokOK, tokERROR, tokGOTIP, tokReady, tokPrompt, tokSENDOK, tokIPD}

C17_TokenInWindowIsFound ==
    prog = "WifiTest" =>
        \A t \in SearchedTokens : IndexOf(Window, t) >= 0 => strstr(acc, t)

\* C18: a byte read by pumpESP never empties the window: the window after
\* the push is not empty.
PumpRead ==
    /\ prog = "WifiTest"
    /\ espRx # <<>>
    /\ espRx' = Tail(espRx)
    /\ pc = WLoopPump \/ ex # "idle"

C18_ArrivalNeverEmptiesWindow == [][PumpRead => accLen' > 0]_vars

\* C19: every receive buffer stays within a fixed capacity: accLen <= 127
\* with the terminator at acc[accLen], espBuf at most 512 bytes, and the String
\* acc of espWaitFor within the largest of the capacities, that of espBuf.
WindowBounded ==
    /\ accLen <= AccSize - 1
    /\ Len(acc) <= AccSize
    /\ accLen > 0 => At(acc, accLen) = NUL

C19_BuffersStayBounded ==
    /\ prog = "WifiTest" => WindowBounded
    /\ Len(espBuf) <= EspBufMax
    /\ prog = "part_000" => Len(acc) <= EspBufMax

\* C20: the frames and the link table transitions that a stream gives do not
\* depend on how it is cut into chunks: they are those of the stream read in
\* one piece, by pumpESP in WifiTest and by the read loop of loop() in part_000.
RECURSIVE PumpAll(_, _)
PumpAll(s, bytes) ==
    IF bytes = <<>> THEN s
    ELSE LET n == PumpByte(s, Head(bytes)) IN
         IF n.accLen >= 0 THEN PumpAll(n, Tail(bytes)) ELSE n

PumpInit ==
    [acc |-> <<>>, accLen |-> 0, ipdActive |-> FALSE, ipdId |-> -1, ipdLen |-> 0,
     ipdRead |-> 0, ipdGot |-> <<>>, pumpFrames |-> <<>>]

C20_ChunkingDoesNotMatter ==
    Processed =>
        /\ maskLog = <<0>>
        /\ IF prog = "WifiTest"
           THEN /\ pumpFrames = PumpAll(PumpInit, fed).pumpFrames
                /\ delivered = <<>>
           ELSE delivered = PollCommands(fed, <<>>).out

\* C21: an exchange that the module answers with the error token does not
\* give its caller the outcome that a timeout gives (false, "fail").
AnsweredError ==
    /\ ex = "idle"
    /\ res # "none"
    /\ tx.step \in Steps
    /\ reply = ReplyERROR

C21_ErrorIsNotReportedAsTimeout == AnsweredError => res # "fail"

\* C22: a send whose payload was written and whose "SEND OK" was not seen
\* neither counts as sent nor gives the outcome of a send whose prompt was
\* never seen (false, "fail").
Unconfirmed ==
    /\ prog = "part_000"
    /\ ex = "idle"
    /\ pc = PBroadcast
    /\ tx.step = "espSendTo.SENDOK"
    /\ IndexOf(reply, tokSENDOK) < 0

C22_UnconfirmedSendIsDistinct == Unconfirmed => res \notin {"ok", "fail", "none"}

\* C23: a pass of espBroadcast starts at link 0; each send it attempts goes
\* to the lowest link from its position on that is marked open at that
\* moment, no open link is passed over, the pass ends only when no link up
\* to 4 is left open, and after a send, failed or not, it goes on with the
\* next link.
IsOpen(i) == (activeMask \div (2 ^ i)) % 2 = 1

SendAttempt == pc = PBroadcast /\ pc' = "espSendTo.CIPSEND"
PassEnds == pc = PBroadcast /\ pc' \in {PBroadcast, PLoop} /\ todo' # todo
SendReturns == pc \in {"espSendTo.CIPSEND", "espSendTo.SENDOK"} /\ pc' = PBroadcast

C23_BroadcastCoversOpenLinks ==
    [][/\ SendAttempt =>
            /\ bi' \in bi..4
            /\ IsOpen(bi')
            /\ \A j \in bi..(bi' - 1) : ~IsOpen(j)
       /\ PassEnds => \A j \in bi..4 : ~IsOpen(j)
       /\ SendReturns => bi' = bi + 1
       /\ (pc = PLoop /\ pc' = PBroadcast) => bi' = 0]_vars

\* a send to a higher link is about to be announced after the send to a
\* lower link ended without its prompt
C23_Witness ==
    /\ pc = "espSendTo.CIPSEND"
    /\ ex = "idle"
    /\ tx.step = "espSendTo.CIPSEND"
    /\ tx.link >= 0
    /\ tx.link < bi
    /\ res = "none"

\* C24: every exchange that has begun returns to its caller.
C24_ExchangeTerminates == (ex # "idle") ~> (ex = "idle")

\* C25: while pollAndEchoIPD waits for "SEND OK", what it announced and
\* wrote is the echo of the frame it last completed: the same link, the
\* length L + 7, and "ECHO: ", the L payload bytes as received, a newline.
EchoWritten == prog = "WifiTest" /\ pc = "echo.SENDOK" /\ ex # "idle" /\ delivered # <<>>

LastFrame == delivered[Len(delivered)]

C25_EchoIsThePayload ==
    EchoWritten =>
        /\ tx.link = LastFrame.id
        /\ tx.len = Len(LastFrame.payload) + 7
        /\ tx.data = EchoPrefix \o LastFrame.payload \o <<LF>>

\* C26: the payload bytes that pollAndEchoIPD writes, acc[0..L-1], lie
\* inside acc[].
C26_EchoReadsInsideWindow ==
    EchoWritten => Len(tx.data) - Len(EchoPrefix) - 1 <= AccSize

\* C27: startAP comes to the open channel-1 configuration only from the
\* WPA2 channel-6 configuration returned false; from either configuration
\* returned true it goes on to AT+CIFSR, AT+CIPMUX=1 and, that one returned
\* true, AT+CIPSERVER, which are reached in no other way; from the open
\* configuration returned false it returns false to setup().
Enters(step) == pc' = step /\ pc # step
Leaves(step) == pc = step /\ pc' # step

C27_AccessPointFallbackOrder ==
    [][/\ Enters("startAP.CWSAP1") => pc = "startAP.CWSAP6" /\ res' = "fail"
       /\ (Leaves("startAP.CWSAP6") /\ res' = "fail") => pc' = "startAP.CWSAP1"
       /\ (Leaves("startAP.CWSAP6") /\ res' = "ok") => pc' = "startAP.CIFSR"
       /\ (Leaves("startAP.CWSAP1") /\ res' = "ok") => pc' = "startAP.CIFSR"
       /\ Enters("startAP.CIFSR") =>
              pc \in {"startAP.CWSAP6", "startAP.CWSAP1"} /\ res' = "ok"
       /\ Leaves("startAP.CIFSR") => pc' = "startAP.CIPMUX"
       /\ Enters("startAP.CIPMUX") => pc = "startAP.CIFSR"
       /\ Enters("startAP.CIPSERVER") => pc = "startAP.CIPMUX" /\ res' = "ok"
       /\ (Leaves("startAP.CWSAP1") /\ res' = "fail") =>
              pc' = WLoopPump /\ ap' = "fail" /\ ~apMode']_vars

\* both configurations have returned false and setup() has gone on to loop()
C27_Witness ==
    /\ pc = WLoopPump
    /\ tx.step = "startAP.CWSAP1"
    /\ res = "fail"
    /\ ap = "fail"

\* C28: beamBlocked goes from false to true only in a processData call
\* that, like the Y_MAX_BLOCK_COUNT - 1 calls before it, detected blockage.
Latches == ~beamBlocked /\ beamBlocked'

C28_LatchNeedsSevenInARow == [][Latches => blockedRun' >= Y_MAX_BLOCK_COUNT]_vars

\* C29: while latched, a call that detects blockage sets blockCounter to
\* Y_MAX_BLOCK_COUNT and keeps the latch; beamBlocked goes from true to false
\* only in a call that detects no blockage and brings blockCounter to 0, the
\* Y_MAX_BLOCK_COUNT-th clear detection in a row.
Call == ~(Phase(setCycleCount) < 2) /\ setCycleCount' # setCycleCount
Unlatches == beamBlocked /\ ~beamBlocked'

C29_UnlatchNeedsSevenClear ==
    [][/\ Unlatches =>
            /\ Call
            /\ ~blockedNow'
            /\ blockCounter' = 0
            /\ clearRun' >= Y_MAX_BLOCK_COUNT
       /\ (Call /\ beamBlocked /\ blockedNow') =>
            beamBlocked' /\ blockCounter' = Y_MAX_BLOCK_COUNT]_vars

\* the latch has just been released
C29_Witness ==
    /\ prev /\ ~beamBlocked
    /\ blockCounter = 0
    /\ clearRun = Y_MAX_BLOCK_COUNT

C34_CounterBounds ==
    /\ 0 <= blockCounter /\ blockCounter <= Y_MAX_BLOCK_COUNT
    /\ beamBlocked => blockCounter >= 1
    /\ ~beamBlocked => blockCounter <= Y_MAX_BLOCK_COUNT - 1

\* a latched detector has decayed to its last count
C34_Witness == beamBlocked /\ ~blockedNow /\ blockCounter = 1

\* C31: processData runs exactly once after every two completed sample sets:
\* a call happens only when currentSample = 0 and 2*M_SAMPLES samples have
\* been recorded since the call before, no sample is recorded in the lapse
\* phase or beyond the two sets, and currentSample stays in 0..M_SAMPLES-1
\* and currentSet in 0..N_SETS-1.
Records == currentSample' # currentSample

C31_ProcessAfterTwoSets ==
    [][/\ Call => currentSample = 0 /\ recorded = 2 * M_SAMPLES
       /\ Records => Phase(setCycleCount) # 2 /\ recorded' <= 2 * M_SAMPLES
       /\ currentSample' \in 0..(M_SAMPLES - 1)
       /\ currentSet' \in 0..(N_SETS - 1)]_vars

\* C32: a sensor's enable flag toggles only on a debounced press of its
\* button, the input having gone from HIGH to LOW and stayed LOW for longer
\* than settleMs, and once for that press; it does not toggle on a release
\* nor on an input change shorter than settleMs, and the step that toggles
\* one flag leaves the other flag unchanged.
Pressed(i) == pin[i] = LOW /\ millis - lowSince[i] > settleMs

C32_ToggleOncePerDebouncedPress ==
    [][/\ en1' # en1 => Pressed(1) /\ toggles'[1] = 1 /\ en2' = en2
       /\ en2' # en2 => Pressed(2) /\ toggles'[2] = 1 /\ en1' = en1]_vars

\* C33: in every espPollForCommands call each handled payload that is a
\* JSON set_sensor command sets the enable flag of the sensor it names to
\* the state it names and leaves the other flag unchanged, every other
\* payload leaves both flags unchanged, the link table is unchanged, and
\* the call leaves no complete payload in espBuf.
Handled == SubSeq(delivered', Len(delivered) + 1, Len(delivered'))

\* what each line sent by the client asks for
Asks(payload) ==
    CASE payload \in {JsonS1On, JsonSpaced} -> [sensor |-> 1, on |-> TRUE]
      [] payload = JsonS1Off -> [sensor |-> 1, on |-> FALSE]
      [] payload = JsonS2On -> [sensor |-> 2, on |-> TRUE]
      [] payload = JsonS2Off -> [sensor |-> 2, on |-> FALSE]
      [] OTHER -> [sensor |-> 0, on |-> FALSE]

RECURSIVE Asked(_, _)
Asked(e, out) ==
    IF out = <<>> THEN e
    ELSE LET a == Asks(Head(out).payload) IN
         Asked([en1 |-> IF a.sensor = 1 THEN a.on ELSE e.en1,
                en2 |-> IF a.sensor = 2 THEN a.on ELSE e.en2], Tail(out))

NoCompletePayload(b) ==
    LET i == IndexOf(b, tokIPD)
        j == IF i < 0 THEN -1 ELSE IndexOfFrom(b, <<":">>, i)
    IN  i < 0 \/ j < 0 \/ IndexOfFrom(b, <<LF>>, j + 1) < 0

C33_CommandsSetTheNamedSensor ==
    [][Handled # <<>> =>
          /\ [en1 |-> en1', en2 |-> en2'] = Asked([en1 |-> en1, en2 |-> en2], Handled)
          /\ activeMask' = activeMask
          /\ NoCompletePayload(espBuf')]_vars

====
